---- MODULE Spec2Model ----
(***************************************************************************)
(* Velocity Launcher: the process lifecycle and launch-safety subsystem of *)
(* the Electron main process (src/src/main.ts).                            *)
(*                                                                         *)
(* The state is the main process's module-level state (runningEmulators,   *)
(* launchedProcesses, mainWindow), the ChildProcess objects that spawn()   *)
(* has returned together with the listeners and the timer the launch       *)
(* handler attached to them, and what an observer of the IPC boundary      *)
(* sees: the reply of the last call, the number of spawn() invocations,    *)
(* the 'emulator-stopped' messages sent and the exceptions nobody caught.  *)
(* One action per IPC handler and per event listener.                      *)
(***************************************************************************)
EXTENDS Integers, Sequences, FiniteSets, TLC

(***************************************************************************)
(* Bounds and input domains                                                *)
(***************************************************************************)

\* spawn() is invoked at most MaxSpawns times in a behaviour.
MaxSpawns == 2

\* A short argument string has at most MaxPieces space-separated pieces.
MaxPieces == 2

\* incrementLaunchCount is called for an entry while its stored counter is
\* below MaxLaunchCount.
MaxLaunchCount == 1

\* The entry identifiers the renderer launches.
EmulatorIds == {"e1", "e2"}

\* The process identifiers the operating system hands out.
PIDs == {101, 102}

\* process.platform of the build.
Platforms == {"win32", "darwin"}

\* child.pid of a ChildProcess whose spawn failed, Map.get of an absent key,
\* an absent field of a result object: JavaScript's undefined (falsy).
Undefined == 0

(***************************************************************************)
(* Strings: a string is a sequence of one-character strings.               *)
(***************************************************************************)

Str0 == << >>

UpperCaseLetters == <<"A", "B", "C", "D", "E", "F", "G", "H", "I", "J", "K", "L", "M", "N", "O", "P", "Q", "R", "S", "T", "U", "V", "W", "X", "Y", "Z">>

LowerCaseLetters == <<"a", "b", "c", "d", "e", "f", "g", "h", "i", "j", "k", "l", "m", "n", "o", "p", "q", "r", "s", "t", "u", "v", "w", "x", "y", "z">>

toLowerChar(ch) ==
  IF \E i \in 1..Len(UpperCaseLetters) : UpperCaseLetters[i] = ch
  THEN LowerCaseLetters[CHOOSE i \in 1..Len(UpperCaseLetters) : UpperCaseLetters[i] = ch]
  ELSE ch

toLowerCase(s) == [i \in 1..Len(s) |-> toLowerChar(s[i])]

endsWith(s, suffix) ==
  /\ Len(suffix) <= Len(s)
  /\ SubSeq(s, Len(s) - Len(suffix) + 1, Len(s)) = suffix

includes(s, sub) ==
  \E i \in 1..(Len(s) - Len(sub) + 1) : SubSeq(s, i, i + Len(sub) - 1) = sub

(***************************************************************************)
(* path.normalize (Node's path module, which main.ts imports), for the two *)
(* path flavours: win32 (separators / and \, drive letters) and posix.     *)
(* UNC roots are left out: no path of the input domain starts with two     *)
(* separators.                                                             *)
(***************************************************************************)

isPathSeparator(plat, ch) ==
  IF plat = "win32" THEN ch \in {"/", "\\"} ELSE ch = "/"

isWindowsDeviceRoot(ch) ==
  ch \in {"a", "b", "c", "d", "e", "g", "n", "x", "A", "C", "E", "X"}

\* The segments of s between separators.
RECURSIVE SplitAt(_, _, _, _, _)
SplitAt(s, plat, i, cur, acc) ==
  IF i > Len(s) THEN Append(acc, cur)
  ELSE IF isPathSeparator(plat, s[i])
       THEN SplitAt(s, plat, i + 1, Str0, Append(acc, cur))
       ELSE SplitAt(s, plat, i + 1, Append(cur, s[i]), acc)

Segments(s, plat) == SplitAt(s, plat, 1, Str0, << >>)

RECURSIVE JoinSegments(_, _)
JoinSegments(segs, sep) ==
  IF segs = << >> THEN Str0
  ELSE IF Len(segs) = 1 THEN segs[1]
  ELSE segs[1] \o <<sep>> \o JoinSegments(Tail(segs), sep)

DotDot == <<".", ".">>

\* normalizeString: resolves "." and ".." segments; res is the result so far.
RECURSIVE normalizeString(_, _, _)
normalizeString(segs, allowAboveRoot, res) ==
  IF segs = << >> THEN res
  ELSE LET seg == Head(segs)
           rest == Tail(segs)
       IN IF seg = Str0 \/ seg = <<".">>
          THEN normalizeString(rest, allowAboveRoot, res)
          ELSE IF seg = DotDot
          THEN IF res # << >> /\ res[Len(res)] # DotDot
               THEN normalizeString(rest, allowAboveRoot, SubSeq(res, 1, Len(res) - 1))
               ELSE IF allowAboveRoot
               THEN normalizeString(rest, allowAboveRoot, Append(res, seg))
               ELSE normalizeString(rest, allowAboveRoot, res)
          ELSE normalizeString(rest, allowAboveRoot, Append(res, seg))

normalizeWin32(path) ==
  IF Len(path) = 0 THEN <<".">>
  ELSE
    LET n == Len(path)
        rootSep == isPathSeparator("win32", path[1])
        hasDrive == n >= 2 /\ isWindowsDeviceRoot(path[1]) /\ path[2] = ":"
        driveAbs == hasDrive /\ n >= 3 /\ isPathSeparator("win32", path[3])
        isAbsolute == rootSep \/ driveAbs
        rootEnd == IF rootSep THEN 1
                   ELSE IF driveAbs THEN 3
                   ELSE IF hasDrive THEN 2 ELSE 0
        device == IF hasDrive THEN SubSeq(path, 1, 2) ELSE Str0
        tail0 == JoinSegments(
                   normalizeString(Segments(SubSeq(path, rootEnd + 1, n), "win32"),
                                   ~isAbsolute, << >>), "\\")
        tail1 == IF tail0 = Str0 /\ ~isAbsolute THEN <<".">> ELSE tail0
        tail == IF tail1 # Str0 /\ rootEnd < n /\ isPathSeparator("win32", path[n])
                THEN Append(tail1, "\\") ELSE tail1
    IN device \o (IF isAbsolute THEN <<"\\">> ELSE Str0) \o tail

normalizePosix(path) ==
  IF Len(path) = 0 THEN <<".">>
  ELSE
    LET n == Len(path)
        isAbsolute == path[1] = "/"
        trailingSeparator == path[n] = "/"
        body == JoinSegments(
                  normalizeString(Segments(path, "posix"), ~isAbsolute, << >>), "/")
    IN IF body = Str0
       THEN IF isAbsolute THEN <<"/">>
            ELSE IF trailingSeparator THEN <<".", "/">> ELSE <<".">>
       ELSE (IF isAbsolute THEN <<"/">> ELSE Str0) \o body
            \o (IF trailingSeparator THEN <<"/">> ELSE Str0)

\* path.normalize of the running platform (darwin uses the posix flavour).
normalize(path, plat) ==
  IF plat = "win32" THEN normalizeWin32(path) ELSE normalizePosix(path)

(***************************************************************************)
(* The file system the validators look at: a fixed snapshot over the paths *)
(* of the input domain.  "vanishing" is a path that exists when existsSync *)
(* looks and is gone when statSync does (statSync throws).                 *)
(***************************************************************************)

ExeOk      == <<"C", ":", "\\", "a", ".", "e", "x", "e">>
ExeUpper   == <<"C", ":", "\\", "A", ".", "E", "X", "E">>
ExeMissing == <<"C", ":", "\\", "n", ".", "e", "x", "e">>
ExeDir     == <<"C", ":", "\\", "d", ".", "e", "x", "e">>
ExeTxt     == <<"C", ":", "\\", "a", ".", "t", "x", "t">>
ExeParent  == <<".", ".", "\\", "a", ".", "e", "x", "e">>
ExeInner   == <<"C", ":", "\\", "d", "\\", ".", ".", "\\", "a", ".", "e", "x", "e">>
ExeGone    == <<"C", ":", "\\", "g", ".", "e", "x", "e">>
AppOk      == <<"/", "a", ".", "a", "p", "p">>

DirOk      == <<"C", ":", "\\", "d">>
DirMissing == <<"C", ":", "\\", "n">>
DirParent  == <<".", ".", "/", "d">>

ExecutablePaths ==
  {ExeOk, ExeUpper, ExeMissing, ExeDir, ExeTxt, ExeParent, ExeInner, ExeGone, AppOk}

\* The paths the renderer passes to launch.
LaunchPaths == {ExeOk, ExeMissing, ExeInner}

\* "" stands for an empty and for an undefined workingDirectory: both are falsy.
WorkingDirectories == {Str0, DirOk, DirMissing, DirParent, ExeOk}

LaunchDirectories == {Str0, DirOk, DirMissing}

FileKind(p) ==
  CASE p \in {ExeOk, ExeUpper, ExeTxt, ExeParent, ExeInner, AppOk} -> "file"
    [] p \in {ExeDir, DirOk, DirParent} -> "dir"
    [] p = ExeGone -> "vanishing"
    [] OTHER -> "absent"

existsSync(p) == FileKind(p) # "absent"

\* fs.statSync: the kind of the file, or "throws".
statSync(p) ==
  IF FileKind(p) \in {"file", "dir"} THEN FileKind(p) ELSE "throws"

(***************************************************************************)
(* Security validation functions                                           *)
(***************************************************************************)

allowedExtensions ==
  { <<".", "e", "x", "e">>, <<".", "m", "s", "i">>, <<".", "a", "p", "p">> }

isValidExecutablePath_anyKind(filePath, plat) ==
  IF ~existsSync(filePath) THEN FALSE
  ELSE
    LET hasValidExtension ==
          \E ext \in allowedExtensions : endsWith(toLowerCase(filePath), ext)
        hasPathTraversal == includes(normalize(filePath, plat), DotDot)
    IN hasValidExtension /\ ~hasPathTraversal

isValidExecutablePath(filePath, plat) ==
  IF ~existsSync(filePath) THEN FALSE
  ELSE
    LET hasValidExtension ==
          \E ext \in allowedExtensions : endsWith(toLowerCase(filePath), ext)
        normalizedPath == normalize(filePath, plat)
        hasPathTraversal == includes(normalizedPath, DotDot)
    IN IF statSync(filePath) = "throws" THEN FALSE      \* catch: return false
       ELSE hasValidExtension /\ ~hasPathTraversal /\ statSync(filePath) = "file"

isValidWorkingDirectory(dirPath, plat) ==
  IF dirPath = Str0 THEN TRUE
  ELSE IF ~existsSync(dirPath) THEN FALSE
  ELSE IF includes(normalize(dirPath, plat), DotDot) THEN FALSE
  ELSE statSync(dirPath) = "dir"                        \* throws: catch, false

\* The validators' verdicts on the input domain, computed once.
validExecutable ==
  [plat \in Platforms |-> [p \in ExecutablePaths |-> isValidExecutablePath(p, plat)]]

validDirectory ==
  [plat \in Platforms |-> [p \in WorkingDirectories |-> isValidWorkingDirectory(p, plat)]]

(***************************************************************************)
(* sanitizeArguments                                                       *)
(***************************************************************************)

\* A JavaScript value that arrives as the args parameter: a string, or
\* something that is not one (undefined when the entry has no arguments).
JSString(str) == [type |-> "string", value |-> str]
JSUndefined == [type |-> "undefined", value |-> Str0]
JSNumber(digits) == [type |-> "number", value |-> digits]

\* !args: undefined, "" and 0 are falsy.
Falsy(v) ==
  \/ v.type = "undefined"
  \/ v.type = "string" /\ v.value = Str0
  \/ v.type = "number" /\ v.value = <<"0">>

startsWith(str, prefix) ==
  /\ Len(prefix) <= Len(str)
  /\ SubSeq(str, 1, Len(prefix)) = prefix

\* String.prototype.split(separator) for a one-character separator: the
\* pieces of str[lo..hi] are those of its two halves, the last piece of the
\* first half and the first piece of the second being one piece.
RECURSIVE splitRange(_, _, _, _)
splitRange(str, sep, lo, hi) ==
  IF lo > hi THEN << Str0 >>
  ELSE IF lo = hi
       THEN IF str[lo] = sep THEN << Str0, Str0 >> ELSE << <<str[lo]>> >>
  ELSE LET mid == (lo + hi) \div 2
           left == splitRange(str, sep, lo, mid)
           right == splitRange(str, sep, mid + 1, hi)
       IN SubSeq(left, 1, Len(left) - 1)
            \o << left[Len(left)] \o right[1] >>
            \o Tail(right)

split(str, sep) == splitRange(str, sep, 1, Len(str))

\* The white space String.prototype.trim removes, as far as inputs have it.
WhiteSpace == {" ", "\t", "\n"}

trim_leadingOnce(str) ==
  IF str # Str0 /\ str[1] \in WhiteSpace THEN Tail(str) ELSE str

trim(str) ==
  LET inner == {i \in 1..Len(str) : str[i] \notin WhiteSpace}
  IN IF inner = {} THEN Str0
     ELSE SubSeq(str, CHOOSE i \in inner : \A j \in inner : i <= j,
                      CHOOSE i \in inner : \A j \in inner : j <= i)

\* /[;&|`$(){}[\]<>]/
\* (the backquote is written as a word: a string literal cannot hold it)
Backquote == "backquote"

ShellMetacharacters ==
  {";", "&", "|", Backquote, "$", "(", ")", "{", "}", "[", "]", "<", ">"}

\* dangerousPatterns.some((pattern) => pattern.test(arg))
isDangerous_never(arg) == FALSE

isDangerous(arg) ==
  LET lower == toLowerCase(arg)
  IN \/ \E i \in 1..Len(arg) : arg[i] \in ShellMetacharacters
     \/ startsWith(lower, <<"-", "e", "x", "e", "c">>)                     \* /^-{1,2}exec/i
     \/ startsWith(lower, <<"-", "-", "e", "x", "e", "c">>)
     \/ includes(arg, <<".", ".", "/">>)                           \* /\.\.\//
     \/ includes(arg, <<".", ".", "\\">>)                           \* /\.\.\\/
     \/ includes(lower, <<"c", "m", "d">>)                         \* /cmd/i
     \/ includes(lower, <<"p", "o", "w", "e", "r", "s", "h", "e", "l", "l">>)                          \* /powershell/i
     \/ includes(lower, <<"b", "a", "s", "h">>)                        \* /bash/i
     \/ endsWith(lower, <<"s", "h">>)                          \* /sh$/i

\* .slice(0, 50)
ArgumentLimit == 50

slice_unbounded(list, from, to) == list

slice(list, from, to) ==
  SubSeq(list, from + 1, IF to < Len(list) THEN to ELSE Len(list))

NonEmpty_always(arg) == TRUE

NonEmpty(arg) == Len(arg) > 0
NotDangerous(arg) == ~isDangerous(arg)

sanitizeArguments(args) ==
  IF Falsy(args) \/ args.type # "string" THEN << >>
  ELSE LET pieces == split(args.value, " ")
           trimmed == [i \in 1..Len(pieces) |-> trim(pieces[i])]
       IN slice(SelectSeq(SelectSeq(trimmed, NonEmpty), NotDangerous),
                0, ArgumentLimit)

\* Array.prototype.join(" ") of a token list.
RECURSIVE join(_, _)
join(list, sep) ==
  IF list = << >> THEN Str0
  ELSE IF Len(list) = 1 THEN list[1]
  ELSE LET mid == Len(list) \div 2
       IN join(SubSeq(list, 1, mid), sep) \o <<sep>>
            \o join(SubSeq(list, mid + 1, Len(list)), sep)

\* The argument strings: up to MaxPieces pieces put together with single
\* spaces, the pieces being plain tokens, an empty piece (two spaces in a
\* row), pieces with white space other than the space, and a piece for
\* every dangerous pattern.
ArgumentPieces ==
  { <<"a">>,
    <<"-", "f">>,
    Str0,
    <<"\t", "\n", "b">>,
    <<"a", "\t", "b">>,
    <<"x", ";">>,
    <<"-", "E", "x", "e", "c">>,
    <<".", ".", "/", "r">>,
    <<".", ".", "\\", "r">>,
    <<"C", "m", "d">>,
    <<"p", "o", "w", "e", "r", "s", "h", "e", "l", "l">>,
    <<"B", "A", "S", "H">>,
    <<"f", "i", "s", "h">> }

RECURSIVE PieceLists(_)
PieceLists(n) ==
  IF n = 0 THEN { << >> }
  ELSE LET shorter == PieceLists(n - 1)
       IN shorter \cup {Append(l, piece) : l \in shorter, piece \in ArgumentPieces}

ShortArguments == {JSString(join(l, " ")) : l \in PieceLists(MaxPieces)}

\* "--fullscreen; rm -rf /"
FullscreenInjection == JSString(<<"-", "-", "f", "u", "l", "l", "s", "c", "r", "e", "e", "n", ";", " ", "r", "m", " ", "-", "r", "f", " ", "/">>)

\* Long argument strings: n tokens that repeat a cycle of tokens.
CycleTokens(cycle, n) == [i \in 1..n |-> cycle[((i - 1) % Len(cycle)) + 1]]

TokenCycles ==
  { << <<"a">> >>,
    << <<"a">>, <<"b">>, <<"x", ";">> >>,
    << <<"-", "f">>, Str0, <<"\t", "b">>, <<"C", "m", "d">>, <<"c">> >> }

LongLengths == {49, 50, 51, 80}

LongArguments ==
  {JSString(join(CycleTokens(cycle, n), " ")) : cycle \in TokenCycles, n \in LongLengths}

\* What is not a non-empty string.
NonStringArguments == {JSUndefined, JSString(Str0), JSNumber(<<"0">>), JSNumber(<<"7">>)}

ArgumentValues ==
  ShortArguments \cup LongArguments \cup NonStringArguments \cup {FullscreenInjection}

(***************************************************************************)
(* State                                                                   *)
(***************************************************************************)

VARIABLES
  platform,            \* process.platform
  appState,            \* "running" | "windowAllClosed" (event pending) | "quit"
  mainWindow,          \* "null" | "open" | "closing" ('close' emitted, not yet 'closed')
  runningEmulators,    \* Map emulatorId -> PID
  launchedProcesses,   \* Set of PIDs
  children,            \* the live ChildProcess objects, by the number of their spawn() call
  nextTick,            \* the children whose 'spawn' or 'error' emission is queued
                       \* with process.nextTick: it runs before any other event
  spawnCalls,          \* how often the spawn primitive has been invoked
  lastReply,           \* the reply of the latest IPC call
  launchedOk,          \* per entry: launches that returned success: true
  stoppedSent,         \* per entry: 'emulator-stopped' messages sent to the renderer
  uncaughtExceptions,  \* exceptions thrown out of a listener, caught by nobody
  call,                \* an application of a validation function on its own: the
                       \* function, its argument and, once done, what it returned
  configFile,          \* the settings in velocity-launcher-config.json, or
                       \* Malformed
  defaultSettings,     \* this.defaultSettings of the StorageService: an object,
                       \* which a caller of loadSettings may be handed
  rendererSettings,    \* this.settings of the renderer: its copy of the settings
  storeReply,          \* the reply of the latest storage call
  rendererLaunch,      \* where the renderer's launchEmulator call stands
  iconsDir,            \* the files of the icons directory under userData
  psProcesses,         \* the emulator ids whose icon a PowerShell process is
                       \* extracting
  buttons,             \* per entry: the state of the play button of its card
  toMain,              \* the ipcRenderer.invoke requests the main process has
                       \* not handled yet, oldest first
  toRenderer,          \* the replies and webContents.send messages the
                       \* renderer has not processed yet, oldest first
  clock,               \* Date.now(), in units of ten seconds
  updateCache,         \* the contents of update-cache.json, or NoCache
  isChecking,          \* this.isChecking of the UpdateService
  updateChecks,        \* the performUpdateCheck calls made, by their number
  updateReply          \* what the latest checkForUpdatesOptimized call saw
                       \* and returned

\* The state of the process lifecycle: registry, children, windows.
lifecycleVars ==
  <<platform, appState, mainWindow, runningEmulators, launchedProcesses,
    children, nextTick, spawnCalls, lastReply, launchedOk, stoppedSent,
    uncaughtExceptions>>

\* The state of the settings store and of the renderer's copy of it.
storeVars == <<configFile, defaultSettings, rendererSettings, storeReply>>

\* The icons directory and the renderer's cards with their message queues.
viewVars == <<iconsDir, psProcesses, buttons, toMain, toRenderer>>

\* The state of the update service and of its cache file.
updateVars == <<clock, updateCache, isChecking, updateChecks, updateReply>>

vars == <<lifecycleVars, call, storeVars, rendererLaunch, viewVars, updateVars>>

\* What a step of the process lifecycle leaves alone, what an application
\* of a validation function on its own leaves alone, and what a storage call
\* leaves alone.
outsideLifecycle == <<call, storeVars, rendererLaunch, viewVars, updateVars>>
outsideCall == <<lifecycleVars, storeVars, rendererLaunch, viewVars, updateVars>>
outsideStore == <<lifecycleVars, call, rendererLaunch, viewVars, updateVars>>

NoCall == [fn |-> "none", done |-> FALSE]

\* A call of fn with args that has not returned yet.
PendingCall(fn, args) ==
  [fn |-> fn, args |-> args, done |-> FALSE, result |-> << >>]

\* Map operations on a function whose domain is the set of present keys.
EmptyMap == [k \in {} |-> Undefined]
MapHas(m, k) == k \in DOMAIN m
MapGet(m, k) == IF k \in DOMAIN m THEN m[k] ELSE Undefined
MapSet(m, k, v) == [x \in (DOMAIN m) \cup {k} |-> IF x = k THEN v ELSE m[x]]
MapDelete(m, k) == [x \in (DOMAIN m) \ {k} |-> m[x]]
MapEntries_noPid(m) == {[id |-> k, pid |-> Undefined] : k \in DOMAIN m}

MapEntries(m) == {[id |-> k, pid |-> m[k]] : k \in DOMAIN m}

\* Error messages.  The two validation messages name what was rejected.
MsgAlreadyRunning == "This emulator is already running. Close it first to launch again."
MsgInvalidExecutable == "Invalid executable path: Path does not exist, has invalid extension, or contains path traversal"
MsgInvalidDirectory == "Invalid working directory: Directory does not exist or contains path traversal"
MsgSpawnThrew == "spawn EINVAL"

\* The result objects of the launch handler.  An absent field is Undefined
\* (pid), "" (error) or FALSE (isAlreadyRunning).  existingPid is only logged.
AlreadyRunningResult_generic(existingPid) ==
  [success |-> FALSE, pid |-> Undefined, error |-> MsgAlreadyRunning,
   isAlreadyRunning |-> FALSE]

AlreadyRunningResult_withPid(existingPid) ==
  [success |-> FALSE, pid |-> existingPid, error |-> MsgAlreadyRunning,
   isAlreadyRunning |-> TRUE]

AlreadyRunningResult(existingPid) ==
  [success |-> FALSE, pid |-> Undefined, error |-> MsgAlreadyRunning,
   isAlreadyRunning |-> TRUE]

\* return { success: true, pid: child.pid }
SuccessResult(pid) ==
  [success |-> TRUE, pid |-> pid, error |-> "", isAlreadyRunning |-> FALSE]

\* catch (error): return { success: false, error: error.message }
CatchResult(message) ==
  [success |-> FALSE, pid |-> Undefined, error |-> message,
   isAlreadyRunning |-> FALSE]

LaunchReply(emulatorId, result) ==
  [channel |-> "process:launch-emulator", emulatorId |-> emulatorId, result |-> result]

\* if (child.pid) { launchedProcesses.add(child.pid); runningEmulators.set(...) }
TrackLaunched_never(launched, pid) == launched

TrackLaunched(launched, pid) ==
  IF pid # Undefined THEN launched \cup {pid} ELSE launched

TrackRunning_unchecked(running, emulatorId, pid) ==
  MapSet(running, emulatorId, pid)

TrackRunning(running, emulatorId, pid) ==
  IF pid # Undefined THEN MapSet(running, emulatorId, pid) ELSE running

\* The ChildProcess spawn() returns, with what the handler attaches to it:
\* the 'error', 'exit' and 'spawn' listeners (closures over emulatorId) and
\* the 5 s diagnostic timer.  result is what the handler returned for it.
\* status: "running" (a process, its exit not yet reported), "failed" (no
\* process, its error not yet emitted), "exited", "errored".
NewChild(emulatorId, pid, result) ==
  [emulatorId |-> emulatorId,
   pid |-> pid,
   status |-> IF pid # Undefined THEN "running" ELSE "failed",
   timeout |-> "pending",
   result |-> result]

\* A ChildProcess no event or timer refers to any more is garbage.
IsGarbage(child) ==
  child.status \in {"exited", "errored"} /\ child.timeout = "none"

Collect(cs) == [i \in {j \in DOMAIN cs : ~IsGarbage(cs[j])} |-> cs[i]]

\* The PIDs of processes whose exit the launcher has not yet been told of:
\* the operating system gives none of them to a new process.
FreePIDs ==
  PIDs \ {children[i].pid : i \in {j \in DOMAIN children : children[j].status = "running"}}

InitLifecycle ==
  /\ platform \in Platforms
  /\ appState = "running"
  /\ mainWindow = "null"
  /\ runningEmulators = EmptyMap
  /\ launchedProcesses = {}
  /\ children = EmptyMap
  /\ nextTick = {}
  /\ spawnCalls = 0
  /\ lastReply = [channel |-> "none"]
  /\ launchedOk = [e \in EmulatorIds |-> 0]
  /\ stoppedSent = [e \in EmulatorIds |-> 0]
  /\ uncaughtExceptions = 0

\* The object literal defaultSettings is initialised with.
DefaultSettingsLiteral ==
  [emulators |-> << >>, theme |-> "auto", gridSize |-> "medium",
   sortBy |-> "name", showDescriptions |-> TRUE]

\* A config file whose content JSON.parse rejects.
Malformed == [malformed |-> TRUE]

\* this.settings = null
NoSettings == [isNull |-> TRUE]

\* No launchEmulator call of the renderer is under way.
NotLaunching == [pc |-> "idle"]

\* No update-cache.json.
NoCache == [isNull |-> TRUE]

\* No call of the update service is in progress.
NoUpdateCalls ==
  /\ isChecking = FALSE
  /\ updateChecks = << >>
  /\ updateReply = [op |-> "none"]

\* The update service has not been used and has left no cache file.
NoUpdates ==
  /\ clock = 0
  /\ updateCache = NoCache
  /\ NoUpdateCalls

\* The icons directory is empty (ensureIconsDirectory), every card's play
\* button is as createEmulatorCard makes it, and no message is in flight.
InitView ==
  /\ iconsDir = {}
  /\ psProcesses = {}
  /\ buttons = [emulatorId \in EmulatorIds |-> "stopped"]
  /\ toMain = << >>
  /\ toRenderer = << >>

\* The config file holds the default settings (ensureConfigExists), the
\* renderer has loaded nothing yet.
InitStore ==
  /\ defaultSettings = DefaultSettingsLiteral
  /\ configFile = defaultSettings
  /\ rendererSettings = NoSettings
  /\ storeReply = [op |-> "none"]
  /\ rendererLaunch = NotLaunching
  /\ InitView
  /\ NoUpdates

Init ==
  /\ InitLifecycle
  /\ call = NoCall
  /\ InitStore

(***************************************************************************)
(* ipcMain.handle("process:launch-emulator")                               *)
(***************************************************************************)

\* if (runningEmulators.has(emulatorId))
AlreadyRunning_never(emulatorId) == FALSE

AlreadyRunning(emulatorId) == MapHas(runningEmulators, emulatorId)

\* The duplicate check: return without validating or spawning.
LaunchAlreadyRunning(emulatorId) ==
  /\ AlreadyRunning(emulatorId)
  /\ lastReply' = LaunchReply(emulatorId,
                     AlreadyRunningResult(MapGet(runningEmulators, emulatorId)))
  /\ UNCHANGED <<runningEmulators, launchedProcesses, children, nextTick,
                 spawnCalls, launchedOk>>

\* A validator said no: the handler throws, its catch returns the message.
LaunchInvalid(emulatorId, executablePath, workingDirectory) ==
  /\ ~AlreadyRunning(emulatorId)
  /\ \/ /\ ~validExecutable[platform][executablePath]
        /\ lastReply' = LaunchReply(emulatorId, CatchResult(MsgInvalidExecutable))
     \/ /\ validExecutable[platform][executablePath]
        /\ ~validDirectory[platform][workingDirectory]
        /\ lastReply' = LaunchReply(emulatorId, CatchResult(MsgInvalidDirectory))
  /\ UNCHANGED <<runningEmulators, launchedProcesses, children, nextTick,
                 spawnCalls, launchedOk>>

\* Both security validations passed: the handler goes on to spawn.
PassesValidation_pathOnly(executablePath, workingDirectory) ==
  validExecutable[platform][executablePath]

PassesValidation(executablePath, workingDirectory) ==
  /\ validExecutable[platform][executablePath]
  /\ validDirectory[platform][workingDirectory]

\* The options the handler passes to spawn: detached, no inherited stdio, and
\* cwd only for a non-empty workingDirectory.  child.unref() follows.
SpawnOptions(workingDirectory) ==
  [detached |-> TRUE,
   stdio |-> <<"ignore", "ignore", "ignore">>,
   cwd |-> IF workingDirectory # Str0 THEN workingDirectory ELSE Str0]

\* spawn() returned a ChildProcess, with a PID or (pid = Undefined) without.
LaunchSpawn(emulatorId, executablePath, workingDirectory, pid) ==
  /\ ~AlreadyRunning(emulatorId)
  /\ PassesValidation(executablePath, workingDirectory)
  /\ spawnCalls < MaxSpawns
  /\ spawnCalls' = spawnCalls + 1
  /\ launchedProcesses' = TrackLaunched(launchedProcesses, pid)
  /\ runningEmulators' = TrackRunning(runningEmulators, emulatorId, pid)
  /\ children' = MapSet(children, spawnCalls + 1,
                        NewChild(emulatorId, pid, SuccessResult(pid)))
  /\ nextTick' = {spawnCalls + 1}
  /\ lastReply' = LaunchReply(emulatorId, SuccessResult(pid))
  /\ launchedOk' = [launchedOk EXCEPT ![emulatorId] =
                      IF SuccessResult(pid).success THEN @ + 1 ELSE @]

\* spawn() threw: the catch returns the message, no ChildProcess exists.
LaunchSpawnThrows(emulatorId, executablePath, workingDirectory) ==
  /\ ~AlreadyRunning(emulatorId)
  /\ PassesValidation(executablePath, workingDirectory)
  /\ spawnCalls < MaxSpawns
  /\ spawnCalls' = spawnCalls + 1
  /\ lastReply' = LaunchReply(emulatorId, CatchResult(MsgSpawnThrew))
  /\ UNCHANGED <<runningEmulators, launchedProcesses, children, nextTick,
                 launchedOk>>

LaunchEmulator(emulatorId, executablePath, workingDirectory) ==
  /\ appState = "running"
  /\ nextTick = {}
  /\ mainWindow # "null"            \* the caller is the main window's renderer
  /\ \/ LaunchAlreadyRunning(emulatorId)
     \/ LaunchInvalid(emulatorId, executablePath, workingDirectory)
     \/ \E pid \in FreePIDs \cup {Undefined} :
          LaunchSpawn(emulatorId, executablePath, workingDirectory, pid)
     \/ LaunchSpawnThrows(emulatorId, executablePath, workingDirectory)
  /\ UNCHANGED <<platform, appState, mainWindow, stoppedSent, uncaughtExceptions>>

(***************************************************************************)
(* ipcMain.handle("process:is-emulator-running") and                       *)
(* ipcMain.handle("process:get-running-emulators")                         *)
(***************************************************************************)

IsRunningResult_noPid(emulatorId) ==
  [isRunning |-> MapHas(runningEmulators, emulatorId), pid |-> Undefined]

IsRunningResult(emulatorId) ==
  [isRunning |-> MapHas(runningEmulators, emulatorId),
   pid |-> MapGet(runningEmulators, emulatorId)]

IsEmulatorRunning(emulatorId) ==
  /\ appState = "running"
  /\ nextTick = {}
  /\ mainWindow # "null"
  /\ lastReply' = [channel |-> "process:is-emulator-running",
                   emulatorId |-> emulatorId,
                   result |-> IsRunningResult(emulatorId)]
  /\ UNCHANGED <<platform, appState, mainWindow, runningEmulators,
                 launchedProcesses, children, nextTick, spawnCalls, launchedOk,
                 stoppedSent, uncaughtExceptions>>

GetRunningEmulators ==
  /\ appState = "running"
  /\ nextTick = {}
  /\ mainWindow # "null"
  /\ lastReply' = [channel |-> "process:get-running-emulators",
                   result |-> MapEntries(runningEmulators)]
  /\ UNCHANGED <<platform, appState, mainWindow, runningEmulators,
                 launchedProcesses, children, nextTick, spawnCalls, launchedOk,
                 stoppedSent, uncaughtExceptions>>

(***************************************************************************)
(* The listeners and the timer the launch handler attached to child i      *)
(***************************************************************************)

\* mainWindow && !mainWindow.isDestroyed(): a window that is closing is not
\* destroyed before its 'closed' event.
WindowAvailable == mainWindow # "null"

\* runningEmulators.delete(emulatorId)
ExitRunning_keeps(running, emulatorId) == running

ExitRunning_clears(running, emulatorId) == EmptyMap

ExitRunning(running, emulatorId) == MapDelete(running, emulatorId)

\* mainWindow.webContents.send("emulator-stopped", emulatorId), if there is a window
ExitNotifies == IF WindowAvailable THEN 1 ELSE 0

\* child.on("exit"): the process of child i has terminated.
ChildExit(i) ==
  /\ appState = "running"
  /\ nextTick = {}
  /\ children[i].status = "running"
  /\ IF children[i].pid # Undefined
     THEN /\ launchedProcesses' = launchedProcesses \ {children[i].pid}
          /\ runningEmulators' = ExitRunning(runningEmulators, children[i].emulatorId)
          /\ stoppedSent' = [stoppedSent EXCEPT ![children[i].emulatorId] = @ + ExitNotifies]
     ELSE UNCHANGED <<launchedProcesses, runningEmulators, stoppedSent>>
  /\ children' = Collect([children EXCEPT ![i].status = "exited"])
  /\ UNCHANGED <<platform, appState, mainWindow, nextTick, spawnCalls,
                 lastReply, launchedOk, uncaughtExceptions>>

\* child.on("error"): the spawn of child i failed; the listener logs and
\* rethrows, and the exception leaves the emitter with no handler above it.
ErrorListenerThrows == TRUE

ChildError(i) ==
  /\ appState = "running"
  /\ i \in nextTick
  /\ children[i].status = "failed"
  /\ nextTick' = nextTick \ {i}
  /\ children' = Collect([children EXCEPT ![i].status = "errored"])
  /\ uncaughtExceptions' = IF ErrorListenerThrows THEN uncaughtExceptions + 1
                           ELSE uncaughtExceptions
  /\ UNCHANGED <<platform, appState, mainWindow, runningEmulators,
                 launchedProcesses, spawnCalls, lastReply, launchedOk, stoppedSent>>

\* child.on("spawn"): clearTimeout(timeout).  The runtime emits 'spawn' for
\* every process it created, in the tick of the spawn() call.
ChildSpawned(i) ==
  /\ appState = "running"
  /\ i \in nextTick
  /\ children[i].status = "running"
  /\ nextTick' = nextTick \ {i}
  /\ children' = Collect([children EXCEPT ![i].timeout = "none"])
  /\ UNCHANGED <<platform, appState, mainWindow, runningEmulators,
                 launchedProcesses, spawnCalls, lastReply, launchedOk,
                 stoppedSent, uncaughtExceptions>>

TimeoutFires_unregisters(i) ==
  /\ appState = "running"
  /\ nextTick = {}
  /\ children[i].timeout = "pending"
  /\ children' = Collect([children EXCEPT ![i].timeout = "none"])
  /\ runningEmulators' = MapDelete(runningEmulators, children[i].emulatorId)
  /\ UNCHANGED <<platform, appState, mainWindow,
                 launchedProcesses, nextTick, spawnCalls, lastReply, launchedOk,
                 stoppedSent, uncaughtExceptions>>

\* The 5 s timer fires: it logs (child.killed is never set), nothing else.
TimeoutFires(i) ==
  /\ appState = "running"
  /\ nextTick = {}
  /\ children[i].timeout = "pending"
  /\ children' = Collect([children EXCEPT ![i].timeout = "none"])
  /\ UNCHANGED <<platform, appState, mainWindow, runningEmulators,
                 launchedProcesses, nextTick, spawnCalls, lastReply, launchedOk,
                 stoppedSent, uncaughtExceptions>>

(***************************************************************************)
(* Windows and application lifetime                                        *)
(***************************************************************************)

\* ipcMain.handle("splash:open-main-window") -> createMainWindow()
OpenMainWindow ==
  /\ appState = "running"
  /\ nextTick = {}
  /\ mainWindow = "null"
  /\ mainWindow' = "open"
  /\ UNCHANGED <<platform, appState, runningEmulators, launchedProcesses,
                 children, nextTick, spawnCalls, lastReply, launchedOk,
                 stoppedSent, uncaughtExceptions>>

\* mainWindow.on("close"): logs the emulators still running.
MainWindowClose ==
  /\ appState = "running"
  /\ nextTick = {}
  /\ mainWindow = "open"
  /\ mainWindow' = "closing"
  /\ UNCHANGED <<platform, appState, runningEmulators, launchedProcesses,
                 children, nextTick, spawnCalls, lastReply, launchedOk,
                 stoppedSent, uncaughtExceptions>>

\* mainWindow.on("closed"): mainWindow = null; it was the last window.
MainWindowClosed ==
  /\ appState = "running"
  /\ nextTick = {}
  /\ mainWindow = "closing"
  /\ mainWindow' = "null"
  /\ appState' = "windowAllClosed"
  /\ UNCHANGED <<platform, runningEmulators, launchedProcesses,
                 children, nextTick, spawnCalls, lastReply, launchedOk,
                 stoppedSent, uncaughtExceptions>>

\* app.on("window-all-closed"): logs; app.quit() unless on darwin.  The
\* 'before-quit' listener that app.quit() runs only logs.
WindowAllClosed ==
  /\ appState = "windowAllClosed"
  /\ appState' = IF platform # "darwin" THEN "quit" ELSE "running"
  /\ UNCHANGED <<platform, mainWindow, runningEmulators, launchedProcesses,
                 children, nextTick, spawnCalls, lastReply, launchedOk,
                 stoppedSent, uncaughtExceptions>>

BeforeQuit_kills ==
  /\ appState = "running"
  /\ nextTick = {}
  /\ appState' = "quit"
  /\ children' = Collect([i \in DOMAIN children |->
                    [children[i] EXCEPT !.status =
                       IF @ = "running" THEN "exited" ELSE @]])
  /\ UNCHANGED <<platform, mainWindow, runningEmulators, launchedProcesses,
                 nextTick, spawnCalls, lastReply, launchedOk, stoppedSent,
                 uncaughtExceptions>>

BeforeQuit_untracks ==
  /\ appState = "running"
  /\ nextTick = {}
  /\ appState' = "quit"
  /\ runningEmulators' = EmptyMap
  /\ launchedProcesses' = {}
  /\ UNCHANGED <<platform, mainWindow, children, nextTick, spawnCalls,
                 lastReply, launchedOk, stoppedSent, uncaughtExceptions>>

\* app.on("before-quit") of a quit the user asked for: logs, the app ends.
BeforeQuit ==
  /\ appState = "running"
  /\ nextTick = {}
  /\ appState' = "quit"
  /\ UNCHANGED <<platform, mainWindow, runningEmulators, launchedProcesses,
                 children, nextTick, spawnCalls, lastReply, launchedOk,
                 stoppedSent, uncaughtExceptions>>

Next ==
  \/ \E e \in EmulatorIds, p \in LaunchPaths, w \in LaunchDirectories :
       LaunchEmulator(e, p, w) /\ UNCHANGED outsideLifecycle
  \/ \E e \in EmulatorIds : IsEmulatorRunning(e) /\ UNCHANGED outsideLifecycle
  \/ GetRunningEmulators /\ UNCHANGED outsideLifecycle
  \/ \E i \in DOMAIN children : ChildExit(i) /\ UNCHANGED outsideLifecycle
  \/ \E i \in DOMAIN children : ChildError(i) /\ UNCHANGED outsideLifecycle
  \/ \E i \in DOMAIN children : ChildSpawned(i) /\ UNCHANGED outsideLifecycle
  \/ \E i \in DOMAIN children : TimeoutFires(i) /\ UNCHANGED outsideLifecycle
  \/ OpenMainWindow /\ UNCHANGED outsideLifecycle
  \/ MainWindowClose /\ UNCHANGED outsideLifecycle
  \/ MainWindowClosed /\ UNCHANGED outsideLifecycle
  \/ WindowAllClosed /\ UNCHANGED outsideLifecycle
  \/ BeforeQuit /\ UNCHANGED outsideLifecycle

Spec == Init /\ [][Next]_vars

(***************************************************************************)
(* The validation functions applied on their own: isValidExecutablePath,   *)
(* isValidWorkingDirectory and sanitizeArguments are pure functions of     *)
(* their argument (and of the file system and the platform).               *)
(***************************************************************************)

\* The calls made: every function on every argument of its input domain.
InitValidation ==
  /\ InitLifecycle
  /\ InitStore
  /\ call \in {PendingCall("isValidExecutablePath", JSString(filePath)) :
                  filePath \in ExecutablePaths}
            \cup {PendingCall("isValidWorkingDirectory", JSString(dirPath)) :
                  dirPath \in WorkingDirectories}
            \cup {PendingCall("sanitizeArguments", args) : args \in ArgumentValues}

CallIsValidExecutablePath ==
  /\ call.fn = "isValidExecutablePath"
  /\ ~call.done
  /\ call' = [call EXCEPT !.done = TRUE,
                          !.result = isValidExecutablePath(call.args.value, platform)]

CallIsValidWorkingDirectory ==
  /\ call.fn = "isValidWorkingDirectory"
  /\ ~call.done
  /\ call' = [call EXCEPT !.done = TRUE,
                          !.result = isValidWorkingDirectory(call.args.value, platform)]

CallSanitizeArguments ==
  /\ call.fn = "sanitizeArguments"
  /\ ~call.done
  /\ call' = [call EXCEPT !.done = TRUE, !.result = sanitizeArguments(call.args)]

NextValidation ==
  \/ CallIsValidExecutablePath /\ UNCHANGED outsideCall
  \/ CallIsValidWorkingDirectory /\ UNCHANGED outsideCall
  \/ CallSanitizeArguments /\ UNCHANGED outsideCall

SpecValidation == InitValidation /\ [][NextValidation]_vars

(***************************************************************************)
(* StorageService (src/src/storage.ts) behind the storage:* IPC handlers,  *)
(* and the renderer's copy of the settings (this.settings).  The string    *)
(* fields of an emulator object are character sequences, Str0 standing for *)
(* "" and for an absent optional field: both are falsy.                    *)
(***************************************************************************)

\* A string of n characters.
Text(n) == [i \in 1..n |-> "x"]

NameLimit == 100
DescriptionLimit == 500
StringLimit == 1000
IdLimit == 50

NameHtml == <<"<", "b", ">">>
NameLong == Text(NameLimit + 1)
PlatformWindows == <<"W", "i", "n", "d", "o", "w", "s">>
TypeOther == <<"O", "t", "h", "e", "r">>

\* The object the add form sends for a name and an executable path: the
\* other inputs left empty, platform "Windows".
EmulatorObject(name, executablePath) ==
  [name |-> name,
   description |-> Str0,
   executablePath |-> executablePath,
   iconPath |-> Str0,
   arguments |-> Str0,
   workingDirectory |-> Str0,
   emulatorType |-> TypeOther,
   platform |-> PlatformWindows]

\* The data the add and edit forms send.
EmulatorData ==
  {EmulatorObject(name, executablePath) :
     name \in {NameHtml, Str0, NameLong}, executablePath \in {ExeOk, ExeParent}}

\* The updates objects passed to updateEmulator: a record with the fields
\* that are not undefined.
EmulatorUpdates ==
  {[name |-> NameHtml], [name |-> NameLong]}
    \cup {[launchCount |-> n] : n \in 0..MaxLaunchCount}
    \cup {[id |-> "e2", name |-> NameHtml]}

\* The ids passed to the storage calls: those generateId hands out, and "".
StoreIds == EmulatorIds \cup {""}

PathFields == {"executablePath", "workingDirectory", "iconPath"}

isValidEmulatorData_namesOnly(emulator) ==
  /\ emulator.name # Str0
  /\ Len(emulator.name) <= NameLimit

isValidEmulatorData(emulator) ==
  /\ emulator.name # Str0
  /\ Len(emulator.name) <= NameLimit
  /\ emulator.executablePath # Str0
  /\ emulator.emulatorType # Str0
  /\ emulator.platform # Str0
  /\ Len(emulator.description) <= DescriptionLimit
  /\ Len(emulator.arguments) <= StringLimit
  /\ \A field \in PathFields : ~includes(emulator[field], DotDot)

InjectionCharacters == {"<", ">", "'", "\"", "&"}
NotInjection(ch) == ch \notin InjectionCharacters

sanitizeString(str) ==
  IF str = Str0 THEN Str0
  ELSE slice(trim(SelectSeq(str, NotInjection)), 0, StringLimit)

\* catch (error): return this.defaultSettings, the object itself.
ReturnsDefaultSettings == configFile = Malformed

\* loadSettings: the parsed content of the file over the defaults (a file
\* the launcher wrote has every field), or this.defaultSettings.
loadSettings == IF ReturnsDefaultSettings THEN defaultSettings ELSE configFile

\* The callers of loadSettings change the object they were handed in place
\* and pass it to saveSettings: when it is this.defaultSettings, that object
\* has changed.
SaveSettings(settings) ==
  /\ configFile' = settings
  /\ defaultSettings' = IF ReturnsDefaultSettings THEN settings ELSE defaultSettings

\* emulators.findIndex(e => e.id === id), counted from 1; 0 for "not found".
findIndex(emulators, id) ==
  IF \E i \in 1..Len(emulators) : emulators[i].id = id
  THEN CHOOSE i \in 1..Len(emulators) :
         /\ emulators[i].id = id
         /\ \A j \in 1..(i - 1) : emulators[j].id # id
  ELSE 0

\* generateId: an id no stored entry has.
FreshIds ==
  EmulatorIds \ {loadSettings.emulators[i].id : i \in 1..Len(loadSettings.emulators)}

\* new Date(): the time of day, which does not advance within a behaviour.
Now == 1

MsgInvalidEmulator == "Invalid emulator data: validation failed"

\* storage:add-emulator
AddEmulator(emulator) ==
  /\ IF ~isValidEmulatorData(emulator)
     THEN /\ storeReply' = [op |-> "addEmulator", threw |-> TRUE,
                             message |-> MsgInvalidEmulator]
          /\ UNCHANGED <<configFile, defaultSettings>>
     ELSE \E id \in FreshIds :
            LET settings == loadSettings
                newEmulator == [id |-> id,
                                name |-> sanitizeString(emulator.name),
                                description |-> sanitizeString(emulator.description),
                                executablePath |-> emulator.executablePath,
                                iconPath |-> emulator.iconPath,
                                arguments |-> sanitizeString(emulator.arguments),
                                workingDirectory |-> emulator.workingDirectory,
                                platform |-> sanitizeString(emulator.platform),
                                emulatorType |-> sanitizeString(emulator.emulatorType),
                                dateAdded |-> Now,
                                launchCount |-> 0,
                                lastLaunched |-> Undefined]
            IN /\ SaveSettings([settings EXCEPT !.emulators = Append(@, newEmulator)])
               /\ storeReply' = [op |-> "addEmulator", threw |-> FALSE, result |-> id]
  /\ UNCHANGED rendererSettings

HasField(updates, field) == field \in DOMAIN updates

\* The fields of updates that updateEmulator copies as they are, and those
\* it copies through sanitizeString.  It copies no other field.
CopiedFields ==
  {"executablePath", "workingDirectory", "iconPath", "launchCount", "lastLaunched"}
SanitizedFields == {"name", "description", "arguments", "emulatorType", "platform"}

\* { ...settings.emulators[index], ...sanitizedUpdates }
ApplyUpdates_all(emulator, updates) ==
  [field \in DOMAIN emulator |->
     IF HasField(updates, field) THEN updates[field] ELSE emulator[field]]

ApplyUpdates(emulator, updates) ==
  [field \in DOMAIN emulator |->
     IF HasField(updates, field) /\ field \in CopiedFields THEN updates[field]
     ELSE IF HasField(updates, field) /\ field \in SanitizedFields
          THEN sanitizeString(updates[field])
     ELSE emulator[field]]

\* The length checks on updates.name, updates.description, updates.arguments.
UpdatesTooLong_never(updates) == FALSE

UpdatesTooLong(updates) ==
  \/ HasField(updates, "name") /\ Len(updates.name) > NameLimit
  \/ HasField(updates, "description") /\ Len(updates.description) > DescriptionLimit
  \/ HasField(updates, "arguments") /\ Len(updates.arguments) > StringLimit

\* !id || typeof id !== 'string' || id.length > 50
InvalidId(id) ==
  IF id.type # "string" THEN TRUE
  ELSE id.value = "" \/ Len(id.value) > IdLimit

\* storage:update-emulator; id is a JavaScript value
UpdateEmulator(id, updates) ==
  LET settings == loadSettings
      index == IF InvalidId(id) THEN 0 ELSE findIndex(settings.emulators, id.value)
  IN /\ IF index = 0 \/ UpdatesTooLong(updates)
        THEN /\ storeReply' = [op |-> "updateEmulator", threw |-> FALSE, result |-> FALSE]
             /\ UNCHANGED <<configFile, defaultSettings>>
        ELSE /\ SaveSettings([settings EXCEPT
                                !.emulators[index] = ApplyUpdates(@, updates)])
             /\ storeReply' = [op |-> "updateEmulator", threw |-> FALSE, result |-> TRUE]
     /\ UNCHANGED rendererSettings

\* emulators.splice(index, 1)
splice_toEnd(list, index) == SubSeq(list, 1, index - 1)

splice(list, index) ==
  SubSeq(list, 1, index - 1) \o SubSeq(list, index + 1, Len(list))

\* storage:remove-emulator
RemoveEmulator(id) ==
  LET settings == loadSettings
      index == findIndex(settings.emulators, id)
  IN /\ IF index = 0
        THEN /\ storeReply' = [op |-> "removeEmulator", threw |-> FALSE, result |-> FALSE]
             /\ UNCHANGED <<configFile, defaultSettings>>
        ELSE /\ SaveSettings([settings EXCEPT !.emulators = splice(@, index)])
             /\ storeReply' = [op |-> "removeEmulator", threw |-> FALSE, result |-> TRUE]
     /\ UNCHANGED rendererSettings

\* The counter of entry id, if stored, has not reached MaxLaunchCount.
BelowMaxLaunchCount(id) ==
  \A i \in 1..Len(loadSettings.emulators) :
    loadSettings.emulators[i].id = id =>
      loadSettings.emulators[i].launchCount < MaxLaunchCount

\* storage:increment-launch-count
IncrementLaunchCount_flag(id) ==
  LET settings == loadSettings
      index == findIndex(settings.emulators, id)
  IN /\ IF index # 0
        THEN SaveSettings([settings EXCEPT
                             !.emulators[index].launchCount = 1,
                             !.emulators[index].lastLaunched = Now])
        ELSE UNCHANGED <<configFile, defaultSettings>>
     /\ storeReply' = [op |-> "incrementLaunchCount", threw |-> FALSE]
     /\ UNCHANGED rendererSettings

IncrementLaunchCount(id) ==
  LET settings == loadSettings
      index == findIndex(settings.emulators, id)
  IN /\ IF index # 0
        THEN SaveSettings([settings EXCEPT
                             !.emulators[index].launchCount = @ + 1,
                             !.emulators[index].lastLaunched = Now])
        ELSE UNCHANGED <<configFile, defaultSettings>>
     /\ storeReply' = [op |-> "incrementLaunchCount", threw |-> FALSE]
     /\ UNCHANGED rendererSettings

\* The renderer's loadSettings: this.settings = await electronAPI.loadSettings()
RendererLoadSettings ==
  /\ rendererSettings' = loadSettings
  /\ storeReply' = [op |-> "loadSettings", threw |-> FALSE]
  /\ UNCHANGED <<configFile, defaultSettings>>

\* storage:save-settings with the renderer's copy
SaveRendererSettings(settings) == settings

\* The comparator of sortEmulators, for the numeric sort keys: negative when
\* a comes first.
compare(a, b, sortBy) ==
  CASE sortBy = "launchCount" -> b.launchCount - a.launchCount
    [] sortBy = "lastLaunched" ->
         IF a.lastLaunched = Undefined /\ b.lastLaunched = Undefined THEN 0
         ELSE IF a.lastLaunched = Undefined THEN 1
         ELSE IF b.lastLaunched = Undefined THEN -1
         ELSE b.lastLaunched - a.lastLaunched

\* Array.prototype.sort (stable): insertion of each element after the last
\* one that does not come after it.
RECURSIVE sort(_, _)
sort(list, sortBy) ==
  IF Len(list) <= 1 THEN list
  ELSE LET front == sort(SubSeq(list, 1, Len(list) - 1), sortBy)
           last == list[Len(list)]
           before == {i \in 1..Len(front) : compare(front[i], last, sortBy) <= 0}
           k == IF before = {} THEN 0
                ELSE CHOOSE i \in before : \A j \in before : j <= i
       IN SubSeq(front, 1, k) \o <<last>> \o SubSeq(front, k + 1, Len(front))

SortKeys == {"launchCount", "lastLaunched"}

\* The renderer's sortEmulators: sorts its copy in place, saves the copy.
RendererSortEmulators(sortBy) ==
  /\ rendererSettings # NoSettings
  /\ rendererSettings' = [rendererSettings EXCEPT
                            !.emulators = sort(@, sortBy), !.sortBy = sortBy]
  /\ configFile' = SaveRendererSettings(rendererSettings')
  /\ UNCHANGED defaultSettings
  /\ storeReply' = [op |-> "saveSettings", threw |-> FALSE]

NextStore ==
  \/ \E emulator \in EmulatorData : AddEmulator(emulator) /\ UNCHANGED outsideStore
  \/ \E id \in StoreIds, updates \in EmulatorUpdates :
       UpdateEmulator([type |-> "string", value |-> id], updates) /\ UNCHANGED outsideStore
  \/ \E id \in StoreIds : RemoveEmulator(id) /\ UNCHANGED outsideStore
  \/ \E id \in StoreIds :
       BelowMaxLaunchCount(id) /\ IncrementLaunchCount(id) /\ UNCHANGED outsideStore
  \/ RendererLoadSettings /\ UNCHANGED outsideStore
  \/ \E sortBy \in SortKeys : RendererSortEmulators(sortBy) /\ UNCHANGED outsideStore

SpecStore == Init /\ [][NextStore]_vars

(***************************************************************************)
(* The settings store with a config file that can lose its content         *)
(***************************************************************************)

\* Something other than the launcher leaves the config file with content
\* that cannot be parsed: a write cut short, an edit by hand.
ConfigFileDamaged ==
  /\ configFile # Malformed
  /\ configFile' = Malformed
  /\ UNCHANGED <<defaultSettings, rendererSettings, storeReply>>

NextStoreFaults ==
  \/ \E emulator \in EmulatorData : AddEmulator(emulator) /\ UNCHANGED outsideStore
  \/ \E id \in StoreIds, updates \in EmulatorUpdates :
       UpdateEmulator([type |-> "string", value |-> id], updates) /\ UNCHANGED outsideStore
  \/ \E id \in StoreIds : RemoveEmulator(id) /\ UNCHANGED outsideStore
  \/ \E id \in StoreIds :
       BelowMaxLaunchCount(id) /\ IncrementLaunchCount(id) /\ UNCHANGED outsideStore
  \/ ConfigFileDamaged /\ UNCHANGED outsideStore

SpecStoreFaults == Init /\ [][NextStoreFaults]_vars

(***************************************************************************)
(* The renderer's launchEmulator: is-running check, launch, and after a    *)
(* success result incrementLaunchCount and loadSettings                    *)
(***************************************************************************)

\* A config file left by an earlier run: an entry whose executable exists
\* and one whose executable has been deleted since it was added.
StoredEmulator(id, executablePath) ==
  [id |-> id,
   name |-> sanitizeString(NameHtml),
   description |-> Str0,
   executablePath |-> executablePath,
   iconPath |-> Str0,
   arguments |-> Str0,
   workingDirectory |-> Str0,
   platform |-> PlatformWindows,
   emulatorType |-> TypeOther,
   dateAdded |-> Now,
   launchCount |-> 0,
   lastLaunched |-> Undefined]

StoredSettings ==
  [DefaultSettingsLiteral EXCEPT
     !.emulators = <<StoredEmulator("e1", ExeOk), StoredEmulator("e2", ExeMissing)>>]

InitLaunch ==
  /\ InitLifecycle
  /\ call = NoCall
  /\ defaultSettings = DefaultSettingsLiteral
  /\ configFile = StoredSettings
  /\ rendererSettings = NoSettings
  /\ storeReply = [op |-> "none"]
  /\ rendererLaunch = NotLaunching
  /\ InitView
  /\ NoUpdates

\* init(): the renderer of the main window loads the settings.
RendererInit ==
  /\ mainWindow # "null"
  /\ rendererSettings = NoSettings
  /\ RendererLoadSettings
  /\ UNCHANGED <<lifecycleVars, call, rendererLaunch, viewVars, updateVars>>

\* The cards with a play button: the entries of this.settings, if loaded.
EmulatorCards ==
  IF rendererSettings = NoSettings THEN << >> ELSE rendererSettings.emulators

\* await isEmulatorRunning(emulator.id); if (runningStatus.isRunning) return
RendererLaunchChecks(emulator) ==
  /\ rendererLaunch = NotLaunching
  /\ IsEmulatorRunning(emulator.id)
  /\ rendererLaunch' = IF IsRunningResult(emulator.id).isRunning THEN NotLaunching
                        ELSE [pc |-> "checked", emulator |-> emulator]
  /\ UNCHANGED <<call, storeVars, viewVars, updateVars>>

\* result = await launchEmulator(id, executablePath, arguments,
\* workingDirectory), the entry having no working directory; without
\* result.success the renderer alerts and is done.
RendererLaunchInvokes ==
  /\ rendererLaunch.pc = "checked"
  /\ LaunchEmulator(rendererLaunch.emulator.id,
                    rendererLaunch.emulator.executablePath, Str0)
  /\ rendererLaunch' = IF lastReply'.result.success
                        THEN [pc |-> "launched",
                              emulator |-> rendererLaunch.emulator,
                              result |-> lastReply'.result]
                        ELSE NotLaunching
  /\ UNCHANGED <<call, storeVars, viewVars, updateVars>>

\* if (result.success) await incrementLaunchCount(emulator.id)
RendererLaunchIncrements ==
  /\ rendererLaunch.pc = "launched"
  /\ IncrementLaunchCount(rendererLaunch.emulator.id)
  /\ rendererLaunch' = [rendererLaunch EXCEPT !.pc = "incremented"]
  /\ UNCHANGED <<lifecycleVars, call, viewVars, updateVars>>

\* await this.loadSettings()
RendererLaunchReloads ==
  /\ rendererLaunch.pc = "incremented"
  /\ RendererLoadSettings
  /\ rendererLaunch' = NotLaunching
  /\ UNCHANGED <<lifecycleVars, call, viewVars, updateVars>>

NextLaunch ==
  \/ OpenMainWindow /\ UNCHANGED outsideLifecycle
  \/ RendererInit
  \/ \E index \in 1..Len(EmulatorCards) :
       RendererLaunchChecks(EmulatorCards[index])
  \/ RendererLaunchInvokes
  \/ RendererLaunchIncrements
  \/ RendererLaunchReloads
  \/ \E i \in DOMAIN children : ChildExit(i) /\ UNCHANGED outsideLifecycle
  \/ \E i \in DOMAIN children : ChildError(i) /\ UNCHANGED outsideLifecycle
  \/ \E i \in DOMAIN children : ChildSpawned(i) /\ UNCHANGED outsideLifecycle
  \/ \E i \in DOMAIN children : TimeoutFires(i) /\ UNCHANGED outsideLifecycle

SpecLaunch == InitLaunch /\ [][NextLaunch]_vars

(***************************************************************************)
(* Calls of the storage operations on a store an earlier run left          *)
(***************************************************************************)

\* incrementLaunchCount is called up to MaxCalls times in a row.
MaxCalls == 2

\* An entry that was launched count times.
CountedEmulator(id, count) ==
  [StoredEmulator(id, ExeOk) EXCEPT
     !.launchCount = count,
     !.lastLaunched = IF count > 0 THEN Now ELSE Undefined]

\* The emulator lists of the stores: none, one or two entries, in either
\* order (an entry removed and added again comes last).
StoredLists ==
  { << >> }
    \cup {<<CountedEmulator(id, c)>> : id \in EmulatorIds, c \in 0..MaxLaunchCount}
    \cup {<<CountedEmulator(ids[1], c), CountedEmulator(ids[2], d)>> :
            ids \in {<<"e1", "e2">>, <<"e2", "e1">>},
            c \in 0..MaxLaunchCount, d \in 0..MaxLaunchCount}

StoredConfigs ==
  {[DefaultSettingsLiteral EXCEPT !.emulators = list] : list \in StoredLists}

IconOk == <<"C", ":", "\\", "i", ".", "p", "n", "g">>
IconParent == <<".", ".", "/", "i", ".", "p", "n", "g">>

\* The objects passed to addEmulator: a valid one, and objects that differ
\* from it in one field.
ValidEmulatorObject == EmulatorObject(NameHtml, ExeOk)

AddArguments ==
  {ValidEmulatorObject}
    \cup {[ValidEmulatorObject EXCEPT !.name = v] :
            v \in {Str0, Text(NameLimit), NameLong}}
    \cup {[ValidEmulatorObject EXCEPT !.executablePath = v] : v \in {Str0, ExeParent}}
    \cup {[ValidEmulatorObject EXCEPT !.workingDirectory = v] : v \in {DirOk, DirParent}}
    \cup {[ValidEmulatorObject EXCEPT !.iconPath = v] : v \in {IconOk, IconParent}}
    \cup {[ValidEmulatorObject EXCEPT !.description = v] :
            v \in {Text(DescriptionLimit), Text(DescriptionLimit + 1)}}
    \cup {[ValidEmulatorObject EXCEPT !.arguments = v] :
            v \in {<<"-", "f">>, Text(StringLimit), Text(StringLimit + 1)}}
    \cup {[ValidEmulatorObject EXCEPT !.platform = Str0],
          [ValidEmulatorObject EXCEPT !.emulatorType = Str0]}

\* The ids passed to updateEmulator, as JavaScript values: the ids of
\* entries, "", an id of 51 characters, a number and undefined.
LongId == "eeeeeeeeeeeeeeeeeeeeeeeeeeeeeeeeeeeeeeeeeeeeeeeeeee"

StringId(id) == [type |-> "string", value |-> id]

UpdateIds ==
  {StringId(id) : id \in StoreIds \cup {LongId}}
    \cup {[type |-> "number", value |-> 7], [type |-> "undefined", value |-> 0]}

\* The updates objects passed to updateEmulator; << >> is {}.
UpdateArguments ==
  EmulatorUpdates
    \cup { << >>,
           [name |-> Text(NameLimit)],
           [description |-> Text(DescriptionLimit)],
           [description |-> Text(DescriptionLimit + 1)],
           [arguments |-> Text(StringLimit + 1)],
           [executablePath |-> ExeMissing],
           [id |-> "e1"] }

\* A call of a storage operation fn that has been made `made` times, on a
\* store whose settings were `before`.
StoreCall(fn, args, before) ==
  [fn |-> fn, args |-> args, done |-> FALSE, made |-> 0, before |-> before]

InitStoreCalls ==
  /\ InitLifecycle
  /\ defaultSettings = DefaultSettingsLiteral
  /\ configFile \in StoredConfigs
  /\ rendererSettings = NoSettings
  /\ storeReply = [op |-> "none"]
  /\ rendererLaunch = NotLaunching
  /\ InitView
  /\ NoUpdates
  /\ call \in {StoreCall("addEmulator", [emulator |-> emulator], configFile) :
                  emulator \in AddArguments}
            \cup {StoreCall("updateEmulator", [id |-> id, updates |-> updates],
                            configFile) :
                  id \in UpdateIds, updates \in UpdateArguments}
            \cup {StoreCall("removeEmulator", [id |-> StringId(id)], configFile) :
                  id \in StoreIds \cup {LongId}}
            \cup {StoreCall("incrementLaunchCount", [id |-> StringId(id), times |-> n],
                            configFile) :
                  id \in StoreIds, n \in 1..MaxCalls}

CallAddEmulator ==
  /\ call.fn = "addEmulator"
  /\ ~call.done
  /\ AddEmulator(call.args.emulator)
  /\ call' = [call EXCEPT !.done = TRUE, !.made = 1]

CallUpdateEmulator ==
  /\ call.fn = "updateEmulator"
  /\ ~call.done
  /\ UpdateEmulator(call.args.id, call.args.updates)
  /\ call' = [call EXCEPT !.done = TRUE, !.made = 1]

CallRemoveEmulator ==
  /\ call.fn = "removeEmulator"
  /\ ~call.done
  /\ RemoveEmulator(call.args.id.value)
  /\ call' = [call EXCEPT !.done = TRUE, !.made = 1]

CallIncrementLaunchCount ==
  /\ call.fn = "incrementLaunchCount"
  /\ ~call.done
  /\ IncrementLaunchCount(call.args.id.value)
  /\ call' = [call EXCEPT !.done = (call.made + 1 = call.args.times),
                          !.made = @ + 1]

NextStoreCalls ==
  \/ CallAddEmulator /\ UNCHANGED <<lifecycleVars, rendererLaunch, viewVars, updateVars>>
  \/ CallUpdateEmulator /\ UNCHANGED <<lifecycleVars, rendererLaunch, viewVars, updateVars>>
  \/ CallRemoveEmulator /\ UNCHANGED <<lifecycleVars, rendererLaunch, viewVars, updateVars>>
  \/ CallIncrementLaunchCount /\ UNCHANGED <<lifecycleVars, rendererLaunch, viewVars, updateVars>>

SpecStoreCalls == InitStoreCalls /\ [][NextStoreCalls]_vars

(***************************************************************************)
(* IconService: the icons directory                                        *)
(***************************************************************************)

\* A file of the icons directory, as path.parse(file) splits its name.
IconFile(name, ext) == [name |-> name, ext |-> ext]

\* scriptPath = path.join(this.iconsDir, 'extract-icon.ps1')
ScriptFile == IconFile("extract-icon", ".ps1")

\* The ids icons are asked for: the entries, an entry that was removed, and
\* an id with characters the sanitizing drops.
IconIds == EmulatorIds \cup {"e3", "../e3"}

\* emulatorId.replace(/[^a-zA-Z0-9\-_]/g, '')
sanitizedId(emulatorId) == IF emulatorId = "../e3" THEN "e3" ELSE emulatorId

\* iconFileName = sanitizedId + ".png"
iconFileName(emulatorId) == IconFile(sanitizedId(emulatorId), ".png")

iconExtensions ==
  { <<".", "e", "x", "e">>, <<".", "d", "l", "l">>, <<".", "i", "c", "o">> }

isValidIconPath(filePath, plat) ==
  IF ~existsSync(filePath) THEN FALSE
  ELSE
    LET hasValidExtension ==
          \E ext \in iconExtensions : endsWith(toLowerCase(filePath), ext)
        hasPathTraversal == includes(normalize(filePath, plat), DotDot)
    IN IF statSync(filePath) = "throws" THEN FALSE      \* catch: return false
       ELSE hasValidExtension /\ ~hasPathTraversal /\ statSync(filePath) = "file"

\* The executables icons are extracted from.
IconSources == {ExeOk, ExeMissing, ExeTxt}

\* What a step of the icon service leaves alone.
outsideIcons ==
  <<lifecycleVars, storeVars, rendererLaunch, buttons, toMain, toRenderer,
    updateVars>>

\* extractIcon up to the spawn of PowerShell: with a valid path, a non-empty
\* sanitized id and no icon file yet, extractIconFromExecutable writes the
\* script file and starts PowerShell.  One extraction at a time per icon.
ExtractIcon(executablePath, emulatorId) ==
  /\ isValidIconPath(executablePath, platform)
  /\ sanitizedId(emulatorId) # ""
  /\ iconFileName(emulatorId) \notin iconsDir
  /\ sanitizedId(emulatorId) \notin psProcesses
  /\ iconsDir' = iconsDir \cup {ScriptFile}
  /\ psProcesses' = psProcesses \cup {sanitizedId(emulatorId)}
  /\ UNCHANGED call

\* psProcess.on('close'): the script file is unlinked, if it is still there;
\* PowerShell has written the icon if it exited with code 0.
PowerShellCloses(id, code) ==
  /\ id \in psProcesses
  /\ psProcesses' = psProcesses \ {id}
  /\ iconsDir' = (iconsDir \ {ScriptFile})
                   \cup (IF code = 0 THEN {IconFile(id, ".png")} ELSE {})
  /\ UNCHANGED call

\* The files the loop of cleanupUnusedIcons unlinks: those whose name without
\* its extension is not an active id.
Unused(files, activeEmulatorIds) ==
  {file \in files : file.name \notin activeEmulatorIds}

\* ipcMain.handle("icon:cleanup") with cleanupUnusedIcons: the loop unlinks
\* the unused files in the order readdirSync lists them; an unlinkSync that
\* throws ends the loop in the catch, and the files not reached stay.  The
\* handler returns true.
CleanupUnusedIcons(activeEmulatorIds) ==
  \E deleted \in SUBSET Unused(iconsDir, activeEmulatorIds) :
    /\ iconsDir' = iconsDir \ deleted
    /\ call' = [fn |-> "cleanupUnusedIcons", done |-> TRUE,
                args |-> activeEmulatorIds, before |-> iconsDir,
                after |-> iconsDir', result |-> TRUE]
    /\ UNCHANGED psProcesses

\* The lists of active ids the cleanup is called with.
ActiveLists == SUBSET {"e1", "e2", "e3"}

NextIcons ==
  \/ \E executablePath \in IconSources, emulatorId \in IconIds :
       ExtractIcon(executablePath, emulatorId) /\ UNCHANGED outsideIcons
  \/ \E id \in psProcesses, code \in {0, 1} :
       PowerShellCloses(id, code) /\ UNCHANGED outsideIcons
  \/ \E activeEmulatorIds \in ActiveLists :
       CleanupUnusedIcons(activeEmulatorIds) /\ UNCHANGED outsideIcons

SpecIcons == Init /\ [][NextIcons]_vars

(***************************************************************************)
(* Properties of the launch handler, the registry and the exit listener    *)
(***************************************************************************)

IsLaunchReply == lastReply.channel = "process:launch-emulator"

\* The children of entry e that are a process whose exit has not been reported.
LiveChildren(e) ==
  {i \in DOMAIN children :
     children[i].emulatorId = e /\ children[i].status = "running"}

\* C1: after any sequence of launches and exit events, at most one process
\* spawned for an entry id is alive and not yet exited, and the registry
\* tracks exactly that process for the id.
C1_SingleInstance ==
  \A e \in EmulatorIds :
    /\ Cardinality(LiveChildren(e)) <= 1
    /\ \A i \in LiveChildren(e) : MapGet(runningEmulators, e) = children[i].pid

\* e1 was launched, exited, was launched again, and a further launch of it
\* has been rejected while it runs.
C1_Witness ==
  /\ launchedOk["e1"] = 2
  /\ LiveChildren("e1") # {}
  /\ IsLaunchReply
  /\ lastReply.emulatorId = "e1"
  /\ lastReply.result.isAlreadyRunning

\* C2: a launch for an entry id that is in the registry returns success=false
\* with the already-running flag, does not invoke spawn and leaves the
\* registry unchanged, whatever path and working directory are passed.
C2_DuplicateRejected ==
  [][\A e \in EmulatorIds, p \in LaunchPaths, w \in LaunchDirectories :
       (MapHas(runningEmulators, e) /\ LaunchEmulator(e, p, w)) =>
         /\ lastReply'.result.success = FALSE
         /\ lastReply'.result.isAlreadyRunning = TRUE
         /\ spawnCalls' = spawnCalls
         /\ runningEmulators' = runningEmulators
         /\ launchedProcesses' = launchedProcesses
         /\ children' = children]_vars

\* A launch of e2 has been answered "already running" while e2 runs, and
\* spawn has been invoked once in all.
C2_Witness ==
  /\ MapHas(runningEmulators, "e2")
  /\ spawnCalls = 1
  /\ IsLaunchReply
  /\ lastReply.emulatorId = "e2"
  /\ lastReply.result.isAlreadyRunning
  /\ ~lastReply.result.success

\* C3: an entry id is in the registry if and only if a spawn for it has
\* produced a process whose exit event has not yet been observed; a spawn
\* that yields no process handle puts nothing into the registry.
C3_RegistryIffLive ==
  \A e \in EmulatorIds :
    MapHas(runningEmulators, e) <=>
      \E i \in DOMAIN children :
        /\ children[i].emulatorId = e
        /\ children[i].pid # Undefined
        /\ children[i].status = "running"

\* A spawn for e1 yielded no handle (its ChildProcess is still around) while
\* e2 runs: e2 is registered, e1 is not.
C3_Witness ==
  /\ \E i \in DOMAIN children :
       children[i].emulatorId = "e1" /\ children[i].pid = Undefined
  /\ ~MapHas(runningEmulators, "e1")
  /\ MapHas(runningEmulators, "e2")

\* C4: for every launch that returned success=true there is exactly one
\* 'emulator-stopped' notification: once no process of an entry is left
\* whose exit is outstanding, as many notifications have been sent for the
\* entry as launches of it returned success.
C4_OneNotificationPerLaunch ==
  \A e \in EmulatorIds :
    /\ stoppedSent[e] <= launchedOk[e]
    /\ LiveChildren(e) = {} => stoppedSent[e] = launchedOk[e]

\* C5: when launch returned success=true with handle H and no exit event has
\* been handled since, isRunning answers running=true with the same H.
C5_IsRunningAfterLaunch ==
  \A i \in DOMAIN children :
    (/\ children[i].result.success
     /\ children[i].result.pid # Undefined
     /\ children[i].status = "running") =>
       /\ IsRunningResult(children[i].emulatorId) =
            [isRunning |-> TRUE, pid |-> children[i].result.pid]
       /\ (/\ lastReply.channel = "process:is-emulator-running"
           /\ lastReply.emulatorId = children[i].emulatorId) =>
              lastReply.result = [isRunning |-> TRUE, pid |-> children[i].result.pid]

\* isRunning("e1") has been answered while the process launched for e1 runs.
C5_Witness ==
  /\ lastReply.channel = "process:is-emulator-running"
  /\ lastReply.emulatorId = "e1"
  /\ lastReply.result.isRunning
  /\ \E i \in LiveChildren("e1") :
       children[i].result.success /\ children[i].result.pid = lastReply.result.pid

\* C6: when the spawn yields no process handle (its error comes later), the
\* launch returned success=false with the error message.
C6_SpawnFailureReported ==
  \A i \in DOMAIN children :
    children[i].pid = Undefined =>
      /\ children[i].result.success = FALSE
      /\ children[i].result.error # ""

\* C7: no error raised while serving a launch, the spawn error delivered
\* through the child's 'error' event included, is left unhandled.
C7_NoUnhandledException == uncaughtExceptions = 0

\* C8: a launch whose executable path or working directory fails validation
\* (the entry not running) does not invoke spawn, leaves the registry
\* unchanged and returns success=false with a reason that names the
\* executable path, or the working directory when the path was valid.
C8_ValidationShortCircuits ==
  [][\A e \in EmulatorIds, p \in LaunchPaths, w \in LaunchDirectories :
       (/\ ~MapHas(runningEmulators, e)
        /\ ~validExecutable[platform][p] \/ ~validDirectory[platform][w]
        /\ LaunchEmulator(e, p, w)) =>
         /\ spawnCalls' = spawnCalls
         /\ runningEmulators' = runningEmulators
         /\ launchedProcesses' = launchedProcesses
         /\ children' = children
         /\ lastReply'.result.success = FALSE
         /\ lastReply'.result.isAlreadyRunning = FALSE
         /\ lastReply'.result.error =
              IF ~validExecutable[platform][p]
              THEN MsgInvalidExecutable ELSE MsgInvalidDirectory]_vars

\* A launch of e1 has been refused for its working directory, with e2
\* running and spawn invoked once, for e2.
C8_Witness ==
  /\ IsLaunchReply
  /\ lastReply.emulatorId = "e1"
  /\ lastReply.result.error = MsgInvalidDirectory
  /\ spawnCalls = 1
  /\ DOMAIN runningEmulators = {"e2"}

\* C9: the already-running result returned by launch carries the PID of the
\* process tracked for the entry id.
C9_AlreadyRunningCarriesPid ==
  (/\ IsLaunchReply
   /\ lastReply.result.isAlreadyRunning
   /\ MapHas(runningEmulators, lastReply.emulatorId)) =>
     lastReply.result.pid = runningEmulators[lastReply.emulatorId]

\* C9: the already-running result returned by launch carries no handle
\* (success=false, the error message and the flag only); the PID of the
\* tracked process is what isRunning returns for the entry id.
C9_AlreadyRunningWithoutPid ==
  (IsLaunchReply /\ lastReply.result.isAlreadyRunning) =>
     /\ lastReply.result.pid = Undefined
     /\ lastReply.result.success = FALSE
     /\ lastReply.result.error = MsgAlreadyRunning
     /\ MapHas(runningEmulators, lastReply.emulatorId) =>
          IsRunningResult(lastReply.emulatorId).pid =
            runningEmulators[lastReply.emulatorId]

\* A launch of e1 has been answered "already running" and e1 still runs.
C9_Witness ==
  /\ IsLaunchReply
  /\ lastReply.emulatorId = "e1"
  /\ lastReply.result.isAlreadyRunning
  /\ MapHas(runningEmulators, "e1")
  /\ runningEmulators["e1"] \in PIDs

\* C10: a registry entry is removed or replaced only by the exit event of the
\* process it tracks; no launch, query, timer, window or quit step does it.
C10_OnlyExitRemoves ==
  [][\A e \in EmulatorIds :
       (/\ MapHas(runningEmulators, e)
        /\ \/ ~MapHas(runningEmulators', e)
           \/ runningEmulators'[e] # runningEmulators[e]) =>
         \E i \in DOMAIN children :
           /\ children[i].emulatorId = e
           /\ children[i].pid = runningEmulators[e]
           /\ ChildExit(i)]_vars

\* The window was closed and the app has quit after a launch that failed to
\* spawn, with e1 still in the registry.
C10_Witness ==
  /\ appState = "quit"
  /\ mainWindow = "null"
  /\ uncaughtExceptions > 0
  /\ MapHas(runningEmulators, "e1")

\* C11: for one entry id a register happens before any unregister: whenever
\* the exit listener of a child runs, the child has a PID, the registry holds
\* for its entry id the PID that the spawn of this very child put there, and
\* the launch of it had returned that PID; the events of a child that got no
\* PID leave the registry alone.
C11_RegisterBeforeUnregister ==
  [][\A i \in DOMAIN children :
       /\ ChildExit(i) =>
            /\ children[i].pid # Undefined
            /\ MapGet(runningEmulators, children[i].emulatorId) = children[i].pid
            /\ children[i].pid \in launchedProcesses
            /\ children[i].result = SuccessResult(children[i].pid)
            /\ ~MapHas(runningEmulators', children[i].emulatorId)
       /\ (children[i].pid = Undefined /\ (ChildError(i) \/ TimeoutFires(i))) =>
            /\ runningEmulators' = runningEmulators
            /\ launchedProcesses' = launchedProcesses]_vars

\* e1 was registered once and unregistered once by the exit of its process,
\* and a spawn that got no PID has had its error emitted.
C11_Witness ==
  /\ launchedOk["e1"] = 1
  /\ stoppedSent["e1"] = 1
  /\ ~MapHas(runningEmulators, "e1")
  /\ uncaughtExceptions = 1
  /\ spawnCalls = 2

\* C12: once no process of an entry is left running, a launch of the entry
\* with valid inputs is not answered "already running": it invokes spawn, and
\* the PID spawn returns is registered for the entry as a new child; a child
\* that has exited or failed never becomes running again.
C12_RelaunchAfterExit ==
  [][/\ \A e \in EmulatorIds, p \in LaunchPaths, w \in LaunchDirectories :
          (/\ launchedOk[e] > 0
           /\ LiveChildren(e) = {}
           /\ validExecutable[platform][p] /\ validDirectory[platform][w]
           /\ LaunchEmulator(e, p, w)) =>
             /\ lastReply'.result.isAlreadyRunning = FALSE
             /\ spawnCalls' = spawnCalls + 1
             /\ lastReply'.result.pid # Undefined =>
                  /\ MapGet(runningEmulators', e) = lastReply'.result.pid
                  /\ (spawnCalls + 1) \in DOMAIN children'
                  /\ (spawnCalls + 1) \notin DOMAIN children
                  /\ children'[spawnCalls + 1].status = "running"
                  /\ children'[spawnCalls + 1].pid = lastReply'.result.pid
     /\ \A i \in DOMAIN children :
          children[i].status # "running" =>
            (i \in DOMAIN children' => children'[i].status # "running")]_vars

\* e1 ran, its exit was handled, and a second launch of it has put a new
\* process into the registry.
C12_Witness ==
  /\ launchedOk["e1"] = 2
  /\ stoppedSent["e1"] = 1
  /\ spawnCalls = 2
  /\ MapHas(runningEmulators, "e1")
  /\ LiveChildren("e1") = {2}

\* C13: no launcher operation kills a launched child: a child that is running
\* stops being running only by the exit event of its own process, never by
\* the timer, a later launch, a window close, window-all-closed or
\* before-quit; children are spawned detached with all stdio ignored.
C13_NoOperationKills ==
  [][/\ \A i \in DOMAIN children :
          (/\ children[i].status = "running"
           /\ \/ i \notin DOMAIN children'
              \/ children'[i].status # "running") => ChildExit(i)
     /\ \A w \in LaunchDirectories :
          /\ SpawnOptions(w).detached
          /\ \A k \in 1..3 : SpawnOptions(w).stdio[k] = "ignore"]_vars

\* The app has quit with the window gone while the processes of e1 and e2
\* are both still running.
C13_Witness ==
  /\ appState = "quit"
  /\ mainWindow = "null"
  /\ LiveChildren("e1") # {}
  /\ LiveChildren("e2") # {}

\* C18: the firing or the cancellation of the diagnostic timer of a child
\* changes neither the registry nor the result returned for the child nor
\* the latest reply, and the registry already holds the PID of a child that
\* has one when its timer fires or is cancelled.
C18_TimerHasNoEffect ==
  [][\A i \in DOMAIN children :
       (TimeoutFires(i) \/ ChildSpawned(i)) =>
          /\ runningEmulators' = runningEmulators
          /\ launchedProcesses' = launchedProcesses
          /\ lastReply' = lastReply
          /\ i \in DOMAIN children' => children'[i].result = children[i].result
          /\ (children[i].pid # Undefined /\ children[i].status = "running") =>
               MapGet(runningEmulators, children[i].emulatorId) = children[i].pid]_vars

\* The timer of a failed spawn of e1 has fired (its ChildProcess is gone)
\* while a later launch of e1 runs with its timer cancelled.
C18_Witness ==
  /\ spawnCalls = 2
  /\ uncaughtExceptions = 1
  /\ DOMAIN children = {2}
  /\ children[2].emulatorId = "e1"
  /\ children[2].timeout = "none"
  /\ MapHas(runningEmulators, "e1")

(***************************************************************************)
(* Properties of the validation functions                                  *)
(***************************************************************************)

\* A parent-directory segment: ".." between separators of either style or
\* at an end of the path.
HasTraversalSegment(path) ==
  \E k \in 1..Len(Segments(path, "win32")) : Segments(path, "win32")[k] = DotDot

\* C14: isValidExecutablePath and isValidWorkingDirectory return false for
\* every path that has a parent-directory segment "..", whatever separators
\* it uses and wherever the segment is.
C14_TraversalRejected ==
  (/\ call.fn \in {"isValidExecutablePath", "isValidWorkingDirectory"}
   /\ call.done
   /\ HasTraversalSegment(call.args.value)) => call.result = FALSE

\* C15: sanitizeArguments("--fullscreen; rm -rf /") returns the one token
\* "--fullscreen".
C15_KeepsOnlyFullscreen ==
  (call.fn = "sanitizeArguments" /\ call.done /\ call.args = FullscreenInjection) =>
     call.result = << <<"-", "-", "f", "u", "l", "l", "s", "c", "r", "e", "e", "n">> >>

\* C15: sanitizeArguments("--fullscreen; rm -rf /") drops the token that has
\* the ";", which is "--fullscreen;", and returns the other three tokens,
\* "rm", "-rf" and "/", in this order.
C15_DropsSemicolonToken ==
  (call.fn = "sanitizeArguments" /\ call.done /\ call.args = FullscreenInjection) =>
     call.result = << <<"r", "m">>, <<"-", "r", "f">>, <<"/">> >>

\* sanitizeArguments has been applied to "--fullscreen; rm -rf /".
C15_Witness ==
  /\ call.fn = "sanitizeArguments"
  /\ call.done
  /\ call.args = FullscreenInjection

\* The positions of the pieces of str (between single spaces) that are
\* accepted: not empty once trimmed and matching no dangerous pattern.
AcceptedPositions(str) ==
  LET pieces == split(str, " ")
  IN {i \in 1..Len(pieces) : trim(pieces[i]) # Str0 /\ ~isDangerous(trim(pieces[i]))}

\* C16: sanitizeArguments returns at most 50 tokens, the first 50 accepted
\* tokens of the input in input order, and the empty list for an empty input
\* and for an input that is not a string; it has a result for every input.
C16_FirstFiftyAccepted ==
  (call.fn = "sanitizeArguments" /\ call.done) =>
    /\ Len(call.result) <= 50
    /\ IF call.args.type # "string" \/ call.args.value = Str0
       THEN call.result = << >>
       ELSE LET str == call.args.value
                pieces == split(str, " ")
                accepted == AcceptedPositions(str)
                n == Cardinality(accepted)
            IN /\ Len(call.result) = IF n < 50 THEN n ELSE 50
               /\ \A k \in 1..Len(call.result) :
                    \E i \in accepted :
                      /\ Cardinality({j \in accepted : j <= i}) = k
                      /\ call.result[k] = trim(pieces[i])

\* sanitizeArguments has been applied to 80 acceptable tokens and has
\* returned 50.
C16_Witness ==
  /\ call.fn = "sanitizeArguments"
  /\ call.done
  /\ call.args.type = "string"
  /\ Cardinality(AcceptedPositions(call.args.value)) = 80
  /\ Len(call.result) = 50

\* C17: sanitizeArguments is idempotent: applied to its own result, the
\* tokens joined with single spaces, it returns that result again.
C17_Idempotent ==
  (call.fn = "sanitizeArguments" /\ call.done) =>
    sanitizeArguments(JSString(join(call.result, " "))) = call.result

\* sanitizeArguments has been applied to a string of two pieces, has dropped
\* the dangerous one and has returned the other one trimmed.
C17_Witness ==
  /\ call.fn = "sanitizeArguments"
  /\ call.done
  /\ call.args.type = "string"
  /\ LET pieces == split(call.args.value, " ")
     IN /\ Len(pieces) = 2
        /\ Len(call.result) = 1
        /\ \E i \in 1..2 : isDangerous(pieces[i])
        /\ \A i \in 1..2 : pieces[i] # call.result[1]

\* The last n characters of str, lower-cased.
LowerSuffix(str, n) ==
  IF Len(str) < n THEN Str0
  ELSE [i \in 1..n |-> toLowerChar(str[Len(str) - n + i])]

\* C29: isValidExecutablePath returns true only for a path that exists, is a
\* regular file and ends, whatever the case of its letters, in .exe, .msi or
\* .app; when reading the file's status fails it returns false.
C29_FailsClosed ==
  (call.fn = "isValidExecutablePath" /\ call.done) =>
    /\ call.result \in BOOLEAN
    /\ call.result = TRUE =>
         /\ FileKind(call.args.value) = "file"
         /\ LowerSuffix(call.args.value, 4) \in
              { <<".", "e", "x", "e">>, <<".", "m", "s", "i">>, <<".", "a", "p", "p">> }
    /\ FileKind(call.args.value) \in {"absent", "vanishing", "dir"} =>
         call.result = FALSE

\* An existing file with an upper-case extension has been accepted.
C29_Witness ==
  /\ call.fn = "isValidExecutablePath"
  /\ call.done
  /\ call.args.value = ExeUpper
  /\ call.result = TRUE

\* The denylist of sanitizeArguments, pattern by pattern.
DeniedWords ==
  { <<"c", "m", "d">>, <<"b", "a", "s", "h">>,
    <<"p", "o", "w", "e", "r", "s", "h", "e", "l", "l">> }

MatchesDenylist(token) ==
  \/ \E i \in 1..Len(token) :
       token[i] \in {";", "&", "|", Backquote, "$", "(", ")", "{", "}", "[", "]", "<", ">"}
  \/ \E i \in 1..(Len(token) - 2) :
       /\ token[i] = "." /\ token[i + 1] = "."
       /\ token[i + 2] \in {"/", "\\"}
  \/ \E dashes \in 1..2 :
       /\ Len(token) >= dashes + 4
       /\ \A i \in 1..dashes : token[i] = "-"
       /\ [i \in 1..4 |-> toLowerChar(token[dashes + i])] = <<"e", "x", "e", "c">>
  \/ \E word \in DeniedWords : \E i \in 1..(Len(token) - Len(word) + 1) :
       [k \in 1..Len(word) |-> toLowerChar(token[i + k - 1])] = word
  \/ LowerSuffix(token, 2) = <<"s", "h">>

\* C30: every token of the list the launch handler passes to spawn, which
\* is the result of sanitizeArguments, is non-empty and matches no pattern
\* of the denylist, whatever the raw argument string.
C30_TokensAreClean ==
  (call.fn = "sanitizeArguments" /\ call.done) =>
    \A k \in 1..Len(call.result) :
      /\ call.result[k] # Str0
      /\ ~MatchesDenylist(call.result[k])

\* A string with a piece ending in "sh" has been sanitized, and its other
\* token was kept.
C30_Witness ==
  /\ call.fn = "sanitizeArguments"
  /\ call.done
  /\ call.args = JSString(<<"f", "i", "s", "h", " ", "a">>)
  /\ call.result = << <<"a">> >>

(***************************************************************************)
(* Properties of the settings store                                        *)
(***************************************************************************)

\* The stored launch counter of entry id, the entry being in the file.
StoredEntry(file, id) == file.emulators[findIndex(file.emulators, id)]
IsStored(file, id) == findIndex(file.emulators, id) # 0

\* C19: the launch counter of an entry that stays in the store never
\* decreases, whatever store operation is performed, a saveSettings of the
\* renderer from its copy of the settings included.
C19_LaunchCountNeverDecreases ==
  [][\A id \in EmulatorIds :
       (IsStored(configFile, id) /\ IsStored(configFile', id)) =>
          StoredEntry(configFile', id).launchCount >=
            StoredEntry(configFile, id).launchCount]_vars

(***************************************************************************)
(* Properties of the renderer's launchEmulator                             *)
(***************************************************************************)

\* C20: the renderer calls incrementLaunchCount for an entry only after a
\* launch of it that started a process, never after a launch that was
\* rejected or whose spawn failed.
C20_IncrementOnlyForStartedProcess ==
  rendererLaunch.pc = "incremented" => rendererLaunch.result.pid # Undefined

(***************************************************************************)
(* Properties of the settings store whose config file can be damaged       *)
(***************************************************************************)

\* C22: whenever the config file cannot be parsed, loadSettings returns the
\* default settings (no emulators, theme "auto", gridSize "medium"),
\* whatever storage operations came before.
C22_DefaultsWhenUnreadable ==
  configFile = Malformed => loadSettings = DefaultSettingsLiteral

(***************************************************************************)
(* Properties of single calls of the storage operations                    *)
(***************************************************************************)

\* The ids of the stored entries, in their order.
Ids(settings) == [i \in 1..Len(settings.emulators) |-> settings.emulators[i].id]

\* C21: no updateEmulator call, whatever fields its updates object has (an
\* id field included), and no incrementLaunchCount call changes the id of a
\* stored entry.
C21_IdImmutable ==
  call.fn \in {"updateEmulator", "incrementLaunchCount"} =>
    Ids(configFile) = Ids(call.before)

\* An update whose updates object has the id of another entry was applied.
C21_Witness ==
  /\ call.fn = "updateEmulator"
  /\ call.done
  /\ storeReply.result = TRUE
  /\ HasField(call.args.updates, "id")
  /\ call.args.updates.id # call.args.id.value

\* C23: after incrementLaunchCount was called n times for a stored entry,
\* its launch counter is n higher than before and its lastLaunched is set;
\* for an id that is not stored the call does not throw and the stored
\* settings are as before.
C23_IncrementCounts ==
  (call.fn = "incrementLaunchCount" /\ call.made > 0) =>
    LET id == call.args.id.value
    IN /\ storeReply = [op |-> "incrementLaunchCount", threw |-> FALSE]
       /\ IF IsStored(call.before, id)
          THEN /\ IsStored(configFile, id)
               /\ StoredEntry(configFile, id).launchCount =
                    StoredEntry(call.before, id).launchCount + call.made
               /\ StoredEntry(configFile, id).lastLaunched = Now
          ELSE configFile = call.before

\* Two calls in a row for an entry that had never been launched.
C23_Witness ==
  /\ call.fn = "incrementLaunchCount"
  /\ call.done
  /\ call.made = 2
  /\ IsStored(call.before, call.args.id.value)
  /\ StoredEntry(call.before, call.args.id.value).launchCount = 0
  /\ StoredEntry(configFile, call.args.id.value).launchCount = 2

\* C24: removeEmulator returns true exactly when an entry with the id was
\* stored; then no entry with that id is stored and every other entry is
\* stored as before; for an id that is not stored it returns false and the
\* stored settings are as before.
C24_RemoveResult ==
  (call.fn = "removeEmulator" /\ call.done) =>
    LET id == call.args.id.value
    IN /\ storeReply.threw = FALSE
       /\ storeReply.result = IsStored(call.before, id)
       /\ IF IsStored(call.before, id)
          THEN /\ ~IsStored(configFile, id)
               /\ Len(configFile.emulators) = Len(call.before.emulators) - 1
               /\ \A other \in EmulatorIds \ {id} :
                    IsStored(call.before, other) =>
                      /\ IsStored(configFile, other)
                      /\ StoredEntry(configFile, other) = StoredEntry(call.before, other)
               /\ [configFile EXCEPT !.emulators = << >>] =
                    [call.before EXCEPT !.emulators = << >>]
          ELSE configFile = call.before

\* The first of two stored entries has been removed.
C24_Witness ==
  /\ call.fn = "removeEmulator"
  /\ call.done
  /\ Len(call.before.emulators) = 2
  /\ call.before.emulators[1].id = call.args.id.value
  /\ storeReply.result = TRUE

\* str has two dots in a row.
HasDotDot(str) == \E i \in 1..(Len(str) - 1) : str[i] = "." /\ str[i + 1] = "."

\* C25: addEmulator on data with an empty or missing name, with a name of
\* more than 100 characters or with ".." in executablePath, workingDirectory
\* or iconPath throws "Invalid emulator data: validation failed" and leaves
\* the stored settings as they were.
C25_InvalidDataRejected ==
  (call.fn = "addEmulator" /\ call.done) =>
    LET emulator == call.args.emulator
    IN (\/ emulator.name = Str0
        \/ Len(emulator.name) > 100
        \/ HasDotDot(emulator.executablePath)
        \/ HasDotDot(emulator.workingDirectory)
        \/ HasDotDot(emulator.iconPath)) =>
         /\ storeReply = [op |-> "addEmulator", threw |-> TRUE,
                          message |-> "Invalid emulator data: validation failed"]
         /\ configFile = call.before

\* Data whose iconPath has ".." was rejected by a store that has an entry.
C25_Witness ==
  /\ call.fn = "addEmulator"
  /\ call.done
  /\ call.args.emulator.iconPath = IconParent
  /\ Len(call.before.emulators) = 1
  /\ storeReply.threw = TRUE

\* The id is empty, not a string, longer than 50 characters or not stored.
RejectedId(id, before) ==
  IF id.type # "string" THEN TRUE
  ELSE id.value = "" \/ Len(id.value) > 50 \/ ~IsStored(before, id.value)

\* Between before and after nothing but the entry with the id has changed.
OnlyEntryChanged(before, after, id) ==
  /\ Len(after.emulators) = Len(before.emulators)
  /\ \A i \in 1..Len(before.emulators) :
       before.emulators[i].id # id => after.emulators[i] = before.emulators[i]
  /\ [after EXCEPT !.emulators = << >>] = [before EXCEPT !.emulators = << >>]

UpdateReturned(result) ==
  storeReply = [op |-> "updateEmulator", threw |-> FALSE, result |-> result]

\* C26: updateEmulator returns false and leaves the stored settings as they
\* were when the id is empty, not a string, longer than 50 characters or not
\* stored, or when the new name is longer than 100 characters; in every
\* other case it returns true and changes only the entry with the id.
C26_UpdateResult ==
  (call.fn = "updateEmulator" /\ call.done) =>
    LET updates == call.args.updates
    IN IF \/ RejectedId(call.args.id, call.before)
          \/ HasField(updates, "name") /\ Len(updates.name) > 100
       THEN UpdateReturned(FALSE) /\ configFile = call.before
       ELSE /\ UpdateReturned(TRUE)
            /\ OnlyEntryChanged(call.before, configFile, call.args.id.value)

\* C26: as above, with two more cases in which updateEmulator returns false
\* and leaves the stored settings as they were: a new description longer
\* than 500 characters and new arguments longer than 1000 characters.
C26_UpdateResultWithLengths ==
  (call.fn = "updateEmulator" /\ call.done) =>
    LET updates == call.args.updates
    IN IF \/ RejectedId(call.args.id, call.before)
          \/ HasField(updates, "name") /\ Len(updates.name) > 100
          \/ HasField(updates, "description") /\ Len(updates.description) > 500
          \/ HasField(updates, "arguments") /\ Len(updates.arguments) > 1000
       THEN UpdateReturned(FALSE) /\ configFile = call.before
       ELSE /\ UpdateReturned(TRUE)
            /\ OnlyEntryChanged(call.before, configFile, call.args.id.value)

\* An update of a stored entry with a description of 501 characters has
\* returned false.
C26_Witness ==
  /\ call.fn = "updateEmulator"
  /\ call.done
  /\ ~RejectedId(call.args.id, call.before)
  /\ Len(call.before.emulators) = 2
  /\ call.args.updates = [description |-> Text(501)]
  /\ UpdateReturned(FALSE)

(***************************************************************************)
(* The play buttons of the renderer's cards                                *)
(*                                                                         *)
(* The renderer and the main process exchange messages: an invoke travels  *)
(* to the main process, its reply and the webContents.send notifications   *)
(* travel back on the window's channel, which keeps their order.           *)
(***************************************************************************)

\* An ipcRenderer.invoke of the renderer; from is the function awaiting it.
Request(channel, emulator, from) ==
  [channel |-> channel, emulatorId |-> emulator.id, emulator |-> emulator,
   from |-> from]

\* What the main process sends back for a request.
Reply(request, result) ==
  [channel |-> request.channel, emulatorId |-> request.emulatorId,
   emulator |-> request.emulator, from |-> request.from, result |-> result]

\* mainWindow.webContents.send("emulator-stopped", emulatorId)
StoppedMessage(emulatorId) ==
  [channel |-> "emulator-stopped", emulatorId |-> emulatorId]

\* The launchEmulator calls of the renderer that have not returned.
LaunchesInProgress ==
  Cardinality({i \in 1..Len(toMain) : toMain[i].channel # "emulator-stopped"
                                        /\ toMain[i].from = "launchEmulator"})
  + Cardinality({i \in 1..Len(toRenderer) :
                   toRenderer[i].channel # "emulator-stopped"
                   /\ toRenderer[i].from = "launchEmulator"})

\* setEmulatorButtonState(emulatorId, state) on the card of the entry
setEmulatorButtonState(emulatorId, state) ==
  [buttons EXCEPT ![emulatorId] = state]

\* onEmulatorStopped: setEmulatorButtonState(emulatorId, 'stopped')
OnEmulatorStopped_ignored(emulatorId) == buttons

OnEmulatorStopped(emulatorId) == setEmulatorButtonState(emulatorId, "stopped")

\* renderEmulators makes every card anew, its play button enabled, and asks
\* for each entry whether it is running.
NewCards == [emulatorId \in EmulatorIds |-> "stopped"]

RunningChecks(settings) ==
  [i \in 1..Len(settings.emulators) |->
     Request("process:is-emulator-running",
             [id |-> settings.emulators[i].id,
              executablePath |-> settings.emulators[i].executablePath],
             "renderEmulators")]

\* init(): the renderer loads the settings and renders the cards.
RendererInitRenders ==
  /\ mainWindow # "null"
  /\ rendererSettings = NoSettings
  /\ RendererLoadSettings
  /\ buttons' = NewCards
  /\ toMain' = toMain \o RunningChecks(loadSettings)
  /\ UNCHANGED <<lifecycleVars, call, rendererLaunch, iconsDir, psProcesses,
                 toRenderer, updateVars>>

\* The renderEmulators calls whose checks are not all answered.
RenderingsInProgress ==
  {i \in 1..Len(toMain) : toMain[i].from = "renderEmulators"}
  \cup {i \in 1..Len(toRenderer) : toRenderer[i].channel # "emulator-stopped"
                                    /\ toRenderer[i].from = "renderEmulators"}

\* The user changes the sort order or the view: renderEmulators() replaces
\* the cards.  One rendering at a time.
RendererRenders ==
  /\ rendererSettings # NoSettings
  /\ RenderingsInProgress = {}
  /\ buttons' = NewCards
  /\ toMain' = toMain \o RunningChecks(rendererSettings)
  /\ UNCHANGED <<lifecycleVars, call, storeVars, rendererLaunch, iconsDir,
                 psProcesses, toRenderer, updateVars>>

\* A click on a card or on its play button: launchEmulator(emulator) asks
\* first whether the entry is running.  The card takes the click whatever
\* the state of its play button.  Launches are started while spawn calls
\* are left for them.
CardClicked(emulator) ==
  /\ rendererSettings # NoSettings
  /\ spawnCalls + LaunchesInProgress < MaxSpawns
  /\ toMain' = Append(toMain, Request("process:is-emulator-running",
                                      [id |-> emulator.id,
                                       executablePath |-> emulator.executablePath],
                                      "launchEmulator"))
  /\ UNCHANGED <<lifecycleVars, call, storeVars, rendererLaunch, iconsDir,
                 psProcesses, buttons, toRenderer, updateVars>>

\* What a handler of the main process leaves alone besides the state it
\* works on.
handled == <<call, rendererLaunch, iconsDir, psProcesses, buttons, updateVars>>

\* ipcMain.handle("process:is-emulator-running") on the oldest request
MainIsEmulatorRunning ==
  /\ toMain # << >>
  /\ Head(toMain).channel = "process:is-emulator-running"
  /\ IsEmulatorRunning(Head(toMain).emulatorId)
  /\ toMain' = Tail(toMain)
  /\ toRenderer' = Append(toRenderer,
                          Reply(Head(toMain), IsRunningResult(Head(toMain).emulatorId)))
  /\ UNCHANGED <<handled, storeVars>>

\* ipcMain.handle("process:launch-emulator") on the oldest request
MainLaunchEmulator ==
  /\ toMain # << >>
  /\ Head(toMain).channel = "process:launch-emulator"
  /\ LaunchEmulator(Head(toMain).emulatorId, Head(toMain).emulator.executablePath,
                    Str0)
  /\ toMain' = Tail(toMain)
  /\ toRenderer' = Append(toRenderer, Reply(Head(toMain), lastReply'.result))
  /\ UNCHANGED <<handled, storeVars>>

\* ipcMain.handle("storage:increment-launch-count") on the oldest request
MainIncrementLaunchCount ==
  /\ toMain # << >>
  /\ Head(toMain).channel = "storage:increment-launch-count"
  /\ IncrementLaunchCount(Head(toMain).emulatorId)
  /\ toMain' = Tail(toMain)
  /\ toRenderer' = Append(toRenderer, Reply(Head(toMain), [done |-> TRUE]))
  /\ UNCHANGED <<handled, lifecycleVars>>

\* ipcMain.handle("storage:load-settings") on the oldest request
MainLoadSettings ==
  /\ toMain # << >>
  /\ Head(toMain).channel = "storage:load-settings"
  /\ storeReply' = [op |-> "loadSettings", threw |-> FALSE]
  /\ toMain' = Tail(toMain)
  /\ toRenderer' = Append(toRenderer, Reply(Head(toMain), loadSettings))
  /\ UNCHANGED <<handled, lifecycleVars, configFile, defaultSettings,
                 rendererSettings>>

\* child.on("exit") with its message to the renderer, sent if the window is
\* there and the child had a PID.
ChildExitNotifies(i) ==
  /\ ChildExit(i)
  /\ toRenderer' = IF children[i].pid # Undefined /\ ExitNotifies = 1
                   THEN Append(toRenderer, StoppedMessage(children[i].emulatorId))
                   ELSE toRenderer
  /\ UNCHANGED <<handled, storeVars, toMain>>

\* What the renderer leaves alone when it processes a message.
processed ==
  <<lifecycleVars, call, rendererLaunch, iconsDir, psProcesses, updateVars>>

\* The listener of 'emulator-stopped' runs on the oldest message.
RendererStopped ==
  /\ toRenderer # << >>
  /\ Head(toRenderer).channel = "emulator-stopped"
  /\ buttons' = OnEmulatorStopped(Head(toRenderer).emulatorId)
  /\ toRenderer' = Tail(toRenderer)
  /\ UNCHANGED <<processed, storeVars, toMain>>

\* launchEmulator after await isEmulatorRunning: a running entry is reported
\* and left; else the button shows 'launching' and the launch is invoked.
RendererLaunchChecked ==
  /\ toRenderer # << >>
  /\ Head(toRenderer).channel = "process:is-emulator-running"
  /\ Head(toRenderer).from = "launchEmulator"
  /\ toRenderer' = Tail(toRenderer)
  /\ IF Head(toRenderer).result.isRunning
     THEN UNCHANGED <<buttons, toMain>>
     ELSE /\ buttons' = setEmulatorButtonState(Head(toRenderer).emulatorId,
                                               "launching")
          /\ toMain' = Append(toMain, Request("process:launch-emulator",
                                              Head(toRenderer).emulator,
                                              "launchEmulator"))
  /\ UNCHANGED <<processed, storeVars>>

\* launchEmulator after await launchEmulator: on success the launch count is
\* incremented, else the button is 'stopped' again.
RendererLaunched ==
  /\ toRenderer # << >>
  /\ Head(toRenderer).channel = "process:launch-emulator"
  /\ toRenderer' = Tail(toRenderer)
  /\ IF Head(toRenderer).result.success
     THEN /\ toMain' = Append(toMain, Request("storage:increment-launch-count",
                                              Head(toRenderer).emulator,
                                              "launchEmulator"))
          /\ UNCHANGED buttons
     ELSE /\ buttons' = setEmulatorButtonState(Head(toRenderer).emulatorId,
                                               "stopped")
          /\ UNCHANGED toMain
  /\ UNCHANGED <<processed, storeVars>>

\* launchEmulator after await incrementLaunchCount: await this.loadSettings()
RendererIncremented ==
  /\ toRenderer # << >>
  /\ Head(toRenderer).channel = "storage:increment-launch-count"
  /\ toRenderer' = Tail(toRenderer)
  /\ toMain' = Append(toMain, Request("storage:load-settings",
                                      Head(toRenderer).emulator,
                                      "launchEmulator"))
  /\ UNCHANGED <<processed, storeVars, buttons>>

\* launchEmulator after await loadSettings: the button is set to 'running'
\* and renderEmulators() replaces the cards.
RendererReloaded ==
  /\ toRenderer # << >>
  /\ Head(toRenderer).channel = "storage:load-settings"
  /\ toRenderer' = Tail(toRenderer)
  /\ rendererSettings' = Head(toRenderer).result
  /\ buttons' = NewCards
  /\ toMain' = toMain \o RunningChecks(Head(toRenderer).result)
  /\ UNCHANGED <<processed, configFile, defaultSettings, storeReply>>

\* renderEmulators after await isEmulatorRunning: a running entry's button
\* is set to 'running'.
RendererRenderChecked ==
  /\ toRenderer # << >>
  /\ Head(toRenderer).channel = "process:is-emulator-running"
  /\ Head(toRenderer).from = "renderEmulators"
  /\ toRenderer' = Tail(toRenderer)
  /\ buttons' = IF Head(toRenderer).result.isRunning
                THEN setEmulatorButtonState(Head(toRenderer).emulatorId, "running")
                ELSE buttons
  /\ UNCHANGED <<processed, storeVars, toMain>>

NextButtons ==
  \/ OpenMainWindow /\ UNCHANGED outsideLifecycle
  \/ RendererInitRenders
  \/ RendererRenders
  \/ \E index \in 1..Len(EmulatorCards) : CardClicked(EmulatorCards[index])
  \/ MainIsEmulatorRunning
  \/ MainLaunchEmulator
  \/ MainIncrementLaunchCount
  \/ MainLoadSettings
  \/ RendererStopped
  \/ RendererLaunchChecked
  \/ RendererLaunched
  \/ RendererIncremented
  \/ RendererReloaded
  \/ RendererRenderChecked
  \/ \E i \in DOMAIN children : ChildExitNotifies(i)
  \/ \E i \in DOMAIN children : ChildError(i) /\ UNCHANGED outsideLifecycle
  \/ \E i \in DOMAIN children : ChildSpawned(i) /\ UNCHANGED outsideLifecycle
  \/ \E i \in DOMAIN children : TimeoutFires(i) /\ UNCHANGED outsideLifecycle

SpecButtons == InitLaunch /\ [][NextButtons]_vars

(***************************************************************************)
(* Properties of the icon service                                          *)
(***************************************************************************)

\* The icon files of the ids that are not active.
UnusedIcons(files, activeEmulatorIds) ==
  {file \in files : file.ext = ".png" /\ file.name \notin activeEmulatorIds}

\* C27: cleanupUnusedIcons deletes exactly the .png files whose emulator id
\* is not in the active list and leaves every other file of the icons
\* directory in place, the extract-icon.ps1 script among them.
C27_CleanupExact ==
  call.fn = "cleanupUnusedIcons" =>
    call.after = call.before \ UnusedIcons(call.before, call.args)

(***************************************************************************)
(* Properties of the play buttons                                          *)
(***************************************************************************)

\* Nothing that concerns the entry is in flight: no request of a launch or
\* of a rendering, no reply and no 'emulator-stopped' message.
Settled(emulatorId) ==
  /\ \A i \in 1..Len(toMain) : toMain[i].emulatorId # emulatorId
  /\ \A i \in 1..Len(toRenderer) : toRenderer[i].emulatorId # emulatorId

\* C28: once the renderer has processed every message that concerns an entry
\* and the registry holds no process for it, the entry's play button is in
\* the 'stopped' state, not left disabled as 'launching' or 'running'.
C28_ButtonsReenable ==
  \A emulatorId \in EmulatorIds :
    (Settled(emulatorId) /\ ~MapHas(runningEmulators, emulatorId)) =>
      buttons[emulatorId] = "stopped"

\* A launched process of e1 has exited, its message was processed, and the
\* button is enabled again.
C28_Witness ==
  /\ launchedOk["e1"] > 0
  /\ stoppedSent["e1"] > 0
  /\ ~MapHas(runningEmulators, "e1")
  /\ Settled("e1")
  /\ buttons["e1"] = "stopped"

(***************************************************************************)
(* Further properties of sanitizeArguments                                 *)
(***************************************************************************)

\* C31: sanitizeArguments splits its input on white space: no returned
\* token contains a space, a tab or a newline.
C31_TokensHaveNoWhiteSpace ==
  (call.fn = "sanitizeArguments" /\ call.done) =>
    \A k \in 1..Len(call.result) :
      \A i \in 1..Len(call.result[k]) : call.result[k][i] \notin WhiteSpace

(***************************************************************************)
(* Further properties of the registry                                      *)
(***************************************************************************)

\* The step is the answer of the handler of the channel.
Answers(channel) == lastReply'.channel = channel /\ lastReply' # lastReply

\* C32: isRunning and listRunning change neither the registry nor the PID
\* index; isRunning returns a PID exactly when it reports running; and
\* listRunning returns exactly one {id, pid} pair for each entry id for which
\* isRunning reports running, with the same PID, and no other pair.
C32_QueriesConsistent ==
  [][/\ Answers("process:is-emulator-running") =>
          /\ runningEmulators' = runningEmulators
          /\ launchedProcesses' = launchedProcesses
          /\ lastReply'.result.isRunning <=> lastReply'.result.pid # Undefined
          /\ lastReply'.result = IsRunningResult(lastReply'.emulatorId)
     /\ Answers("process:get-running-emulators") =>
          /\ runningEmulators' = runningEmulators
          /\ launchedProcesses' = launchedProcesses
          /\ \A pair \in lastReply'.result : pair.id \in EmulatorIds
          /\ \A e \in EmulatorIds :
               /\ Cardinality({pair \in lastReply'.result : pair.id = e})
                    = IF IsRunningResult(e).isRunning THEN 1 ELSE 0
               /\ IsRunningResult(e).isRunning =>
                    [id |-> e, pid |-> IsRunningResult(e).pid] \in lastReply'.result
    ]_vars

\* listRunning has answered with both entries while both run.
C32_Witness ==
  /\ lastReply.channel = "process:get-running-emulators"
  /\ Cardinality(lastReply.result) = 2
  /\ lastReply.result = MapEntries(runningEmulators)
  /\ IsRunningResult("e1").isRunning

\* The PIDs the registry maps entry ids to.
RegisteredPIDs == {runningEmulators[e] : e \in DOMAIN runningEmulators}

C34_ExitUnregistersOwnProcess ==
  [][\A e \in DOMAIN runningEmulators :
       e \notin DOMAIN runningEmulators' =>
         \E i \in DOMAIN children :
           /\ children[i].emulatorId = e
           /\ children[i].pid = runningEmulators[e]
           /\ children[i].status = "running"
           /\ (i \notin DOMAIN children' \/ children'[i].status = "exited")
           /\ \A j \in DOMAIN children \ {i} :
                children[j].emulatorId = e => children[j].status # "running"
    ]_vars

\* The second process launched for e1 has exited and e1 is unregistered,
\* the first having exited before.
C34_Witness ==
  /\ launchedOk["e1"] = 2
  /\ stoppedSent["e1"] = 2
  /\ ~MapHas(runningEmulators, "e1")

\* The entry ids whose running status or PID the step changes.
ChangedEntries ==
  {e \in EmulatorIds :
     \/ MapHas(runningEmulators, e) # MapHas(runningEmulators', e)
     \/ MapGet(runningEmulators, e) # MapGet(runningEmulators', e)}

\* The step is a launch call that has answered.
LaunchAnswers ==
  /\ lastReply'.channel = "process:launch-emulator"
  /\ (lastReply' # lastReply \/ spawnCalls' # spawnCalls)

\* The step is the exit event of child i.
ExitEventOf(i) ==
  /\ children[i].status = "running"
  /\ (i \notin DOMAIN children' \/ children'[i].status = "exited")

\* C35: a launch call of, or an exit event for, one entry id changes the
\* running status and the PID of no other entry id.
C35_OtherEntriesUntouched ==
  [][/\ LaunchAnswers => ChangedEntries \subseteq {lastReply'.emulatorId}
     /\ \A i \in DOMAIN children :
          ExitEventOf(i) => ChangedEntries \subseteq {children[i].emulatorId}
    ]_vars

\* e2 has been launched while e1 runs, and both are registered.
C35_Witness ==
  /\ IsLaunchReply
  /\ lastReply.emulatorId = "e2"
  /\ lastReply.result.success
  /\ MapHas(runningEmulators, "e1")
  /\ MapHas(runningEmulators, "e2")

(***************************************************************************)
(* Further properties of the icon service                                  *)
(***************************************************************************)

\* C38: while the PowerShell process of an extraction runs, the script file
\* the extraction wrote is in the icons directory: neither the cleanup of
\* another extraction nor cleanupUnusedIcons deletes extract-icon.ps1
\* between an extraction's write and the end of its process.
C38_ScriptStaysWhileExtracting ==
  psProcesses # {} => ScriptFile \in iconsDir

(***************************************************************************)
(* UpdateService and UpdateCache                                           *)
(*                                                                         *)
(* Time is counted in units of ten seconds, the length of the check        *)
(* timeout; a timer fires before the clock moves past its deadline.        *)
(***************************************************************************)

CHECK_TIMEOUT == 1
FAST_CHECK_TTL == 3
CACHE_TTL == 30

\* The clock runs to MaxClock; MaxChecks performUpdateCheck calls are made.
MaxClock == 5
MaxChecks == 2

\* app.getVersion(), the version of an earlier installation, and the version
\* the update server offers.
CurrentVersion == "1.1.0"
OldVersion == "1.0.0"
NewVersion == "1.2.0"

\* UpdateCacheData, without the updateInfo it carries along
CacheData(lastCheckTime, currentVersion, latestVersion, hasUpdate, ttl) ==
  [lastCheckTime |-> lastCheckTime, currentVersion |-> currentVersion,
   latestVersion |-> latestVersion, hasUpdate |-> hasUpdate, ttl |-> ttl]

\* UpdateCache.getCachedResult: the cache file's data while it is valid
getCachedResult_atTtl ==
  IF updateCache = NoCache THEN NoCache
  ELSE IF clock - updateCache.lastCheckTime <= updateCache.ttl THEN updateCache
  ELSE NoCache

getCachedResult ==
  IF updateCache = NoCache THEN NoCache
  ELSE IF clock - updateCache.lastCheckTime < updateCache.ttl THEN updateCache
  ELSE NoCache

\* UpdateCache.cacheResult: what is written to the cache file
cacheResult(currentVersion, latestVersion, hasUpdate) ==
  CacheData(clock, currentVersion, latestVersion, hasUpdate,
            IF hasUpdate THEN FAST_CHECK_TTL ELSE CACHE_TTL)

\* UpdateCache.getInstantResult
getInstantResult(currentVersion) ==
  LET cached == getCachedResult
  IN IF cached = NoCache
     THEN [shouldCheck |-> TRUE, cachedResult |-> NoCache]
     ELSE IF cached.currentVersion # currentVersion
     THEN [shouldCheck |-> TRUE, cachedResult |-> NoCache]
     ELSE IF clock - cached.lastCheckTime < FAST_CHECK_TTL
     THEN [shouldCheck |-> FALSE, cachedResult |-> cached]
     ELSE [shouldCheck |-> TRUE, cachedResult |-> cached]

\* The cache files an earlier run of the launcher left: none, one written
\* 280 s before this run started, one written by the old version, and one
\* written 20 s before with an update found.
EarlierCaches ==
  {NoCache,
   CacheData(0 - 28, CurrentVersion, CurrentVersion, FALSE, CACHE_TTL),
   CacheData(0 - 1, OldVersion, OldVersion, FALSE, CACHE_TTL),
   CacheData(0 - 2, CurrentVersion, NewVersion, TRUE, FAST_CHECK_TTL)}

InitUpdates ==
  /\ InitLifecycle
  /\ call = NoCall
  /\ defaultSettings = DefaultSettingsLiteral
  /\ configFile = defaultSettings
  /\ rendererSettings = NoSettings
  /\ storeReply = [op |-> "none"]
  /\ rendererLaunch = NotLaunching
  /\ InitView
  /\ clock = 0
  /\ updateCache \in EarlierCaches
  /\ NoUpdateCalls

\* The results checkForUpdatesOptimized returns.
FromCache(cachedResult) ==
  [available |-> cachedResult.hasUpdate, fromCache |-> TRUE, error |-> ""]

Checked(available) == [available |-> available, fromCache |-> FALSE, error |-> ""]

Failed(message) == [available |-> FALSE, fromCache |-> FALSE, error |-> message]

\* The catch of performUpdateCheck: the fallback result, or the error.
Caught(fallbackResult, message) ==
  IF fallbackResult # NoCache THEN FromCache(fallbackResult) ELSE Failed(message)

\* What a checkForUpdatesOptimized call saw and did.
UpdateReply(instant, started, result) ==
  [op |-> "checkForUpdatesOptimized", at |-> clock, cache |-> updateCache,
   instant |-> instant, started |-> started, result |-> result]

UpdaterEvents == {"update-available", "update-not-available", "error"}

\* performUpdateCheck up to its await: isChecking is set, the timeout timer
\* and the three once-listeners are registered, autoUpdater.checkForUpdates()
\* is started.
PerformUpdateCheck(instant) ==
  /\ Len(updateChecks) < MaxChecks
  /\ isChecking' = TRUE
  /\ updateChecks' = Append(updateChecks,
                            [deadline |-> clock + CHECK_TIMEOUT,
                             timer |-> "pending",
                             listeners |-> UpdaterEvents,
                             resolved |-> FALSE,
                             settled |-> FALSE,
                             checking |-> TRUE,
                             fallback |-> instant.cachedResult])
  /\ updateReply' = UpdateReply(instant, TRUE, [pending |-> TRUE])
  /\ UNCHANGED <<clock, updateCache>>

\* ipcMain.handle("updater:check-for-updates"): checkForUpdatesOptimized
CheckForUpdatesOptimized ==
  LET instant == getInstantResult(CurrentVersion)
  IN IF ~instant.shouldCheck /\ instant.cachedResult # NoCache
     THEN /\ updateReply' = UpdateReply(instant, FALSE, FromCache(instant.cachedResult))
          /\ UNCHANGED <<clock, updateCache, isChecking, updateChecks>>
     ELSE IF isChecking
     THEN /\ updateReply' = UpdateReply(instant, FALSE,
                                        Caught(instant.cachedResult,
                                               "Update check in progress"))
          /\ UNCHANGED <<clock, updateCache, isChecking, updateChecks>>
     ELSE PerformUpdateCheck(instant)

\* What performUpdateCheck call j returns once its race has settled.
Returned(j, result) == [op |-> "performUpdateCheck", check |-> j, result |-> result]

\* The autoUpdater check that call k started completes and emits the event:
\* every once-listener still registered for it runs and is removed.  A
\* listener whose call has not resolved resolves or rejects the call's
\* promise; cleanup() then finds resolved set and removes nothing.  A call
\* whose race settles with it caches a result, returns, and clears
\* isChecking in its finally.
AutoUpdaterEmits(k, event) ==
  LET fired(j) == event \in updateChecks[j].listeners
      settling == {j \in DOMAIN updateChecks :
                     fired(j) /\ ~updateChecks[j].resolved /\ ~updateChecks[j].settled}
      last == CHOOSE j \in settling : \A i \in settling : i <= j
      available == event = "update-available"
  IN /\ updateChecks[k].checking
     /\ updateChecks' =
          [j \in DOMAIN updateChecks |->
             LET check == [updateChecks[j] EXCEPT
                             !.checking = IF j = k THEN FALSE ELSE @]
             IN IF fired(j)
                THEN [check EXCEPT !.listeners = @ \ {event},
                                   !.resolved = TRUE,
                                   !.settled = TRUE]
                ELSE check]
     /\ IF settling = {}
        THEN UNCHANGED <<isChecking, updateCache, updateReply>>
        ELSE /\ isChecking' = FALSE
             /\ updateCache' =
                  IF event = "error" THEN updateCache
                  ELSE cacheResult(CurrentVersion,
                                   IF available THEN NewVersion ELSE CurrentVersion,
                                   available)
             /\ updateReply' =
                  Returned(last, IF event = "error"
                                 THEN Caught(updateChecks[last].fallback, "error")
                                 ELSE Checked(available))
     /\ UNCHANGED clock

\* The timeout timer of call k fires: the race of a call that has not
\* settled rejects, the catch returns the fallback or the error, and the
\* finally clears isChecking.  The autoUpdater check goes on.
CheckTimeoutFires(k) ==
  /\ updateChecks[k].timer = "pending"
  /\ clock >= updateChecks[k].deadline
  /\ updateChecks' = [updateChecks EXCEPT ![k].timer = "fired", ![k].settled = TRUE]
  /\ IF updateChecks[k].settled
     THEN UNCHANGED <<isChecking, updateReply>>
     ELSE /\ isChecking' = FALSE
          /\ updateReply' = Returned(k, Caught(updateChecks[k].fallback,
                                               "Update check timeout"))
  /\ UNCHANGED <<clock, updateCache>>

\* Ten seconds pass.
Tick ==
  /\ clock < MaxClock
  /\ \A k \in DOMAIN updateChecks :
       updateChecks[k].timer = "pending" => clock < updateChecks[k].deadline
  /\ clock' = clock + 1
  /\ UNCHANGED <<updateCache, isChecking, updateChecks, updateReply>>

\* What the update service leaves alone.
outsideUpdates == <<lifecycleVars, call, storeVars, rendererLaunch, viewVars>>

NextUpdates ==
  \/ CheckForUpdatesOptimized /\ UNCHANGED outsideUpdates
  \/ \E k \in DOMAIN updateChecks, event \in UpdaterEvents :
       AutoUpdaterEmits(k, event) /\ UNCHANGED outsideUpdates
  \/ \E k \in DOMAIN updateChecks : CheckTimeoutFires(k) /\ UNCHANGED outsideUpdates
  \/ Tick /\ UNCHANGED outsideUpdates

SpecUpdates == InitUpdates /\ [][NextUpdates]_vars

(***************************************************************************)
(* Properties of the update service                                        *)
(***************************************************************************)

\* The autoUpdater checks that have been started and have not completed.
OutstandingChecks == {k \in DOMAIN updateChecks : updateChecks[k].checking}

\* C36: at no time are two update checks outstanding at once: a call made
\* while an earlier autoUpdater check has not completed starts no second
\* one.
C36_OneCheckOutstanding == Cardinality(OutstandingChecks) <= 1

\* The TTL of a cached result: 30 seconds when the check found an update,
\* 5 minutes otherwise.
TtlOf(cached) == IF cached.hasUpdate THEN FAST_CHECK_TTL ELSE CACHE_TTL

\* C37: the cache returns a cached result only while its age is strictly
\* less than its TTL, and getInstantResult reports shouldCheck = false
\* exactly when such a result exists, was recorded for the current app
\* version and is younger than 30 seconds.
C37_CacheFreshness ==
  /\ getCachedResult # NoCache =>
       /\ getCachedResult = updateCache
       /\ clock - updateCache.lastCheckTime < TtlOf(updateCache)
  /\ updateReply.op = "checkForUpdatesOptimized" =>
       (updateReply.instant.shouldCheck = FALSE
          <=> /\ updateReply.cache # NoCache
              /\ updateReply.at - updateReply.cache.lastCheckTime
                   < TtlOf(updateReply.cache)
              /\ updateReply.cache.currentVersion = CurrentVersion
              /\ updateReply.at - updateReply.cache.lastCheckTime < FAST_CHECK_TTL)

\* A call found the result a check of this run cached ten or twenty seconds
\* before, and did not check again.
C37_Witness ==
  /\ updateReply.op = "checkForUpdatesOptimized"
  /\ ~updateReply.instant.shouldCheck
  /\ updateReply.cache # NoCache
  /\ updateReply.cache.lastCheckTime >= 0
  /\ updateReply.at > updateReply.cache.lastCheckTime
  /\ ~updateReply.cache.hasUpdate

====
